---- MODULE Spec2Model ----
(***************************************************************************)
(* A model of the market-data ingestion engine of glora: the candle        *)
(* aggregator (core/DataModels.h), the stream reconciler                   *)
(* (network/BinanceClient), and the backfill orchestrator with its store   *)
(* (core/DataManager, database/Database).                                  *)
(*                                                                         *)
(* Prices and quantities are C++ doubles in the source; they are modelled  *)
(* as integers (fixed-point units), so every comparison and sum is exact.  *)
(***************************************************************************)
EXTENDS Integers, Sequences, FiniteSets, TLC

VARIABLES
  \* --- candle aggregator (core/DataModels.h) ---
  candle,          \* the Candle object under test
  applied,         \* the ticks passed to candle.add_tick so far, in order
  \* --- stream reconciler (network/BinanceClient) ---
  bufferingEnabled_,   \* BinanceClient::bufferingEnabled_
  wsMessageBuffer_,    \* BinanceClient::wsMessageBuffer_ (front first)
  seenTradeIds_,       \* BinanceClient::seenTradeIds_
  lastRestTradeId_,    \* BinanceClient::lastRestTradeId_
  activeSymbol,        \* Impl::activeSymbol
  onTick,              \* Impl::onTick: the registered callback
  onMessage,           \* whether webSocket has the aggTrade message handler
  wsRunning,           \* whether webSocket.start() is in force
  isSubscribed,        \* MainWindow::Impl::isSubscribed
  callerPc,            \* the calling thread: idle, fetching, flushing
  hPc,                 \* the websocket thread inside the handler: idle, push, dispatch
  hMsg,                \* the message the handler is working on
  \* observations of the reconciler's behaviour
  bootstraps,          \* number of bootstrapHistoryThenStream calls so far
  fetchSnap,           \* what was in force when the last history request was sent
  historyCalls,        \* onHistoryComplete invocations in the current bootstrap
  tickCalls,           \* invocations of the current bootstrap's onTickCallback
  nReceived,           \* number of messages handed to the message handler
  received,            \* the trade ids of those messages
  delivered,           \* the trade ids passed to onTick, in order
  droppedCovered,      \* ids skipped because id <= lastRestTradeId_
  flushRun,            \* the flushBuffer call in progress or just returned:
                       \* its input, watermark and output
  \* --- backfill orchestrator and store (core/DataManager, database/Database) ---
  now,                 \* std::chrono::system_clock::now() in ms
  exchange,            \* the aggregate trades the exchange holds for the symbol
  ticksTable,          \* rows of table ticks
  candlesTable,        \* rows of table candles
  candlesBySymbol_,    \* DataManager::candlesBySymbol_[currentSymbol_]
  isLoadingHistory_,   \* DataManager::isLoadingHistory_
  dgPc,                \* the thread in detectAndFillGaps: idle, fetching
  dgPlan,              \* the fetchMissingData calls it still has to make
  liveNext,            \* the live stream has delivered the trades with a < liveNext
  backfill,            \* the current or last detectAndFillGaps run: whether it
                       \* started on an empty store, what it fetched, what
                       \* getCandles returned when it finished
  \* --- chart aggregator (core/ChartDataManager.h) ---
  timeframe_,          \* ChartDataManager::timeframe_
  candles_,            \* ChartDataManager::candles_: the sealed candles
  currentCandle_,      \* ChartDataManager::currentCandle_: the open candle
  chartTicks,          \* the ticks passed to addTick since the last reset
  setHistoricalCall,   \* the setHistoricalData call in progress and the state of mutex_
  \* --- store interface (database/Database) ---
  db_,                 \* Database::db_: TRUE while the handle is open
  ticksRows,           \* rows of table ticks, by symbol
  candlesRows,         \* rows of table candles, by symbol
  storeCall,           \* the last call on the Database: its arguments, the
                       \* fault sqlite met in it, what it returned
  storeCalls,          \* the number of calls made
  \* --- historical pull (network/BinanceClient) ---
  fetchPc,             \* the caller of fetchHistoricalAggTrades: idle, loop, returned
  fetchArgs,           \* its arguments startTime and endTime
  currentStart,        \* the local currentStart of the loop
  allTicks,            \* the local allTicks: runs of n ticks with timestamp T
  tradeSource,         \* the number of aggTrades the exchange holds per timestamp
  fetchObs,            \* the requests and callbacks of the fetch so far
  klineCall,           \* the last fetchKlines call: arguments and candles returned
  fetches,             \* the number of fetch calls made
  \* --- retention (database/Database, main.cpp) ---
  cleanup,             \* the cleanupOldData call in progress: the statement it
                       \* runs next, its cutoffTime, whether DELETE FROM ticks
                       \* removed rows
  \* --- live pipeline (main.cpp, core/ThreadSafeQueue.h, core/DataManager) ---
  tickQueue,           \* ThreadSafeQueue: queue_, valid_, and the waiters of
                       \* cond_ that have been woken
  threads,             \* per thread: where it is, the DataManager member
                       \* function it is in, the trade it is handling
  mutexes,             \* the owners of DataManager::dataMutex_ and symbolMutex_
  storeWrites,         \* the Database writes made so far, with their thread
  tradeCallback,       \* who registered the callback in force: main or api
  \* --- the symbol of a live trade ---
  currentSymbol_       \* DataManager::currentSymbol_

cdVars == <<candle, applied>>
rcState == <<bufferingEnabled_, wsMessageBuffer_, seenTradeIds_, lastRestTradeId_,
             activeSymbol, onTick, onMessage, wsRunning, isSubscribed>>
rcPcs == <<callerPc, hPc, hMsg>>
rcObs == <<bootstraps, fetchSnap, historyCalls, tickCalls, nReceived, received,
           delivered, droppedCovered, flushRun>>
rcVars == <<rcState, rcPcs, rcObs>>
dmVars == <<now, exchange, ticksTable, candlesTable, candlesBySymbol_,
            isLoadingHistory_, dgPc, dgPlan, liveNext, backfill>>
chVars == <<timeframe_, candles_, currentCandle_, chartTicks, setHistoricalCall>>
dbVars == <<db_, ticksRows, candlesRows, storeCall, storeCalls>>
ftVars == <<fetchPc, fetchArgs, currentStart, allTicks, tradeSource, fetchObs,
            klineCall, fetches>>
clVars == <<cleanup>>
plVars == <<tickQueue, threads, mutexes, storeWrites, tradeCallback>>
syVars == <<currentSymbol_>>
vars == <<cdVars, rcVars, dmVars, chVars, dbVars, ftVars, clVars, plVars, syVars>>

(***************************************************************************)
(* Bounds                                                                  *)
(***************************************************************************)
MaxTicks == 3
MaxPrice == 2
MaxMsgs == 2
MaxTradeId == 1
MaxBootstraps == 2
MaxChartTicks == 3
MaxStoreCalls == 3
MaxLiveTicks == 2
MaxFetches == 2

Prices == 0..MaxPrice
Quantities == {1, 2}
BucketTimes == {60000, 60001}

Ticks == [timestamp_ms : BucketTimes, price : Prices, quantity : Quantities,
          is_buyer_maker : BOOLEAN]

(***************************************************************************)
(* Generic helpers                                                         *)
(***************************************************************************)
RECURSIVE SumQuantity(_)
\* sum of the quantities of a sequence of ticks
SumQuantity(s) == IF s = <<>> THEN 0 ELSE Head(s).quantity + SumQuantity(Tail(s))

MaxOf(S) == CHOOSE x \in S : \A y \in S : y <= x
MinOf(S) == CHOOSE x \in S : \A y \in S : x <= y

(***************************************************************************)
(* flat_map<double, PriceNode, std::greater<double>>                       *)
(* data_ is a sequence of [first |-> key, second |-> PriceNode]            *)
(***************************************************************************)
PriceNode == [bid_volume |-> 0, ask_volume |-> 0]

\* std::greater<Key>
comp_(a, b) == a > b

RECURSIVE flat_map_insert_sorted(_, _)
\* one pass of the insertion used by flat_map_sort: put entry e in front of the
\* first element it is ordered before
flat_map_insert_sorted(data, e) ==
  IF data = <<>> THEN <<e>>
  ELSE IF comp_(e.first, Head(data).first) THEN <<e>> \o data
  ELSE <<Head(data)>> \o flat_map_insert_sorted(Tail(data), e)

RECURSIVE flat_map_sort(_)
\* flat_map::sort(): std::sort of data_ by comp_ on the keys
flat_map_sort(data) ==
  IF data = <<>> THEN <<>>
  ELSE flat_map_insert_sorted(flat_map_sort(SubSeq(data, 1, Len(data) - 1)),
                              data[Len(data)])

\* the position operator[] returns a reference to, in data (0: no entry)
flat_map_find(data, key) ==
  IF \E i \in 1..Len(data) : ~comp_(key, data[i].first) /\ ~comp_(data[i].first, key)
  THEN CHOOSE i \in 1..Len(data) :
         /\ ~comp_(key, data[i].first) /\ ~comp_(data[i].first, key)
         /\ \A j \in 1..(i - 1) :
              comp_(key, data[j].first) \/ comp_(data[j].first, key)
  ELSE 0

\* a plausible slip: the lookup never finds the key, so every call inserts
flat_map_ensure_always_inserts(data, key) ==
  flat_map_sort(Append(data, [first |-> key, second |-> PriceNode]))

\* flat_map::operator[] up to the returned reference: data_ after the call
flat_map_ensure(data, key) ==
  IF flat_map_find(data, key) # 0 THEN data
  ELSE flat_map_sort(Append(data, [first |-> key, second |-> PriceNode]))

(***************************************************************************)
(* Candle                                                                  *)
(***************************************************************************)
\* `Candle candle;` followed by the caller's assignment of the two times
NewCandle(start, end) ==
  [start_time_ms |-> start, end_time_ms |-> end,
   open |-> 0, high |-> 0, low |-> 0, close |-> 0, volume |-> 0,
   footprint_profile |-> <<>>]

\* Candle::add_tick
add_tick(c, tick) ==
  LET ohlc == IF c.open = 0
              THEN [c EXCEPT !.open = tick.price, !.high = tick.price,
                             !.low = tick.price, !.close = tick.price]
              ELSE [c EXCEPT !.high = IF tick.price > c.high THEN tick.price ELSE c.high,
                             !.low = IF tick.price < c.low THEN tick.price ELSE c.low,
                             !.close = tick.price]
      data == flat_map_ensure(c.footprint_profile, tick.price)
      i == flat_map_find(data, tick.price)
      node == data[i].second
      node2 == IF tick.is_buyer_maker
               THEN [node EXCEPT !.bid_volume = node.bid_volume + tick.quantity]
               ELSE [node EXCEPT !.ask_volume = node.ask_volume + tick.quantity]
  IN [ohlc EXCEPT !.volume = c.volume + tick.quantity,
                  !.footprint_profile = [data EXCEPT ![i].second = node2]]


(***************************************************************************)
(* Stream reconciler: BinanceClient buffering, flush and bootstrap         *)
(***************************************************************************)
TradeIds == 1..MaxTradeId
\* an aggTrade event; "a" is the aggregate trade id
WsMessages == [a : TradeIds]

\* close times of the klines a history request can return (1m klines)
KlineEndTimes == {59999}
KlineResults == {<<>>} \cup {<<[end_time_ms |-> e]>> : e \in KlineEndTimes}

\* the field T of the aggTrade message with id a: the trades the stream delivers
\* happened after the last kline of the history closed, in order of their ids
aggTradeTime(a) == 60000 + a

NoCallback == <<"none", 0>>
PlainCallback == <<"plain", 0>>
BootstrapCallback(n) == <<"bootstrap", n>>

NoFlush == [ran |-> FALSE, returned |-> FALSE, input |-> <<>>, watermark |-> 0,
            output |-> <<>>]

\* the calling thread has moved on from its last flushBuffer call
ForgetFlush ==
  /\ flushRun' = NoFlush
  /\ UNCHANGED <<bootstraps, fetchSnap, historyCalls, tickCalls, nReceived, received,
                 delivered, droppedCovered>>

\* BinanceClient() and MainWindow::Impl: the state after construction
InitReconcilerVars ==
  /\ bufferingEnabled_ = FALSE
  /\ wsMessageBuffer_ = <<>>
  /\ seenTradeIds_ = {}
  /\ lastRestTradeId_ = 0
  /\ activeSymbol = ""
  /\ onTick = NoCallback
  /\ onMessage = FALSE
  /\ wsRunning = FALSE
  /\ isSubscribed = FALSE
  /\ callerPc = "idle"
  /\ hPc = "idle"
  /\ hMsg = [a |-> 0]
  /\ bootstraps = 0
  /\ fetchSnap = [sent |-> FALSE, buffering |-> FALSE, connected |-> FALSE]
  /\ historyCalls = 0
  /\ tickCalls = 0
  /\ nReceived = 0
  /\ received = {}
  /\ delivered = <<>>
  /\ droppedCovered = {}
  /\ flushRun = NoFlush

\* --- the calling thread ---

\* BinanceClient::enableBuffering
enableBuffering(enable) ==
  /\ callerPc = "idle"
  /\ bufferingEnabled_' = enable
  /\ UNCHANGED <<wsMessageBuffer_, seenTradeIds_, lastRestTradeId_, activeSymbol,
                 onTick, onMessage, wsRunning, isSubscribed, rcPcs>>
  /\ ForgetFlush

\* BinanceClient::setLastTradeId
setLastTradeId(lastId) ==
  /\ callerPc = "idle"
  /\ lastRestTradeId_' = lastId
  /\ UNCHANGED <<bufferingEnabled_, wsMessageBuffer_, seenTradeIds_, activeSymbol,
                 onTick, onMessage, wsRunning, isSubscribed, rcPcs>>
  /\ ForgetFlush

\* BinanceClient::subscribeAggTrades, called on its own (main, ApiHandler)
subscribeAggTrades ==
  /\ callerPc = "idle"
  /\ activeSymbol' = "BTCUSDT"
  /\ onTick' = PlainCallback
  /\ wsMessageBuffer_' = <<>>
  /\ seenTradeIds_' = {}
  /\ onMessage' = TRUE
  \* a new subscription: the trades of the previous one are no longer awaited
  /\ nReceived' = 0
  /\ received' = {}
  /\ delivered' = <<>>
  /\ droppedCovered' = {}
  /\ flushRun' = NoFlush
  /\ UNCHANGED <<bufferingEnabled_, lastRestTradeId_, wsRunning, isSubscribed,
                 rcPcs, bootstraps, fetchSnap, historyCalls, tickCalls>>

\* BinanceClient::connectAndRun
connectAndRun ==
  /\ callerPc = "idle"
  /\ wsRunning' = IF activeSymbol # "" THEN TRUE ELSE wsRunning
  /\ UNCHANGED <<bufferingEnabled_, wsMessageBuffer_, seenTradeIds_, lastRestTradeId_,
                 activeSymbol, onTick, onMessage, isSubscribed, rcPcs>>
  /\ ForgetFlush

\* MainWindow::unsubscribeFromMarketData: shutdown() stops the websocket and
\* joins its thread, so it returns only once the handler is not running
unsubscribeFromMarketData ==
  /\ callerPc = "idle"
  /\ isSubscribed
  /\ hPc = "idle"
  /\ wsRunning' = FALSE
  /\ isSubscribed' = FALSE
  /\ UNCHANGED <<bufferingEnabled_, wsMessageBuffer_, seenTradeIds_, lastRestTradeId_,
                 activeSymbol, onTick, onMessage, rcPcs>>
  /\ ForgetFlush

\* MainWindow::subscribeToMarketData up to the moment bootstrapHistoryThenStream
\* has sent the klines request (fetchKlines, before httpsGet returns)
subscribeToMarketData ==
  /\ callerPc = "idle"
  /\ bootstraps < MaxBootstraps
  /\ isSubscribed => hPc = "idle"
  /\ wsRunning' = IF isSubscribed THEN FALSE ELSE wsRunning
  /\ isSubscribed' = FALSE
  /\ callerPc' = "fetching"
  /\ bootstraps' = bootstraps + 1
  /\ fetchSnap' = [sent |-> TRUE, buffering |-> bufferingEnabled_,
                   connected |-> wsRunning']
  /\ historyCalls' = 0
  /\ tickCalls' = 0
  /\ nReceived' = 0
  /\ received' = {}
  /\ delivered' = <<>>
  /\ droppedCovered' = {}
  /\ flushRun' = NoFlush
  /\ UNCHANGED <<bufferingEnabled_, wsMessageBuffer_, seenTradeIds_, lastRestTradeId_,
                 activeSymbol, onTick, onMessage, hPc, hMsg>>

\* a slip: the completion callback forgets onHistoryComplete on an empty result
historyCallsAfter_skips_empty(candles) ==
  IF candles # <<>> THEN historyCalls + 1 ELSE historyCalls

\* `if (onHistoryComplete) onHistoryComplete(candles);`
historyCallsAfter(candles) == historyCalls + 1

\* the completion lambda of bootstrapHistoryThenStream, run by fetchKlines with
\* the klines it parsed (none when the request failed)
historyFetched(candles) ==
  /\ callerPc = "fetching"
  /\ lastRestTradeId_' = IF candles # <<>> THEN candles[Len(candles)].end_time_ms
                         ELSE lastRestTradeId_
  /\ historyCalls' = historyCallsAfter(candles)
  /\ isSubscribed' = TRUE
  /\ bufferingEnabled_' = TRUE
  \* subscribeAggTrades(symbol, onTickCallback)
  /\ activeSymbol' = "BTCUSDT"
  /\ onTick' = BootstrapCallback(bootstraps)
  /\ wsMessageBuffer_' = <<>>
  /\ seenTradeIds_' = {}
  /\ onMessage' = TRUE
  \* connectAndRun()
  /\ wsRunning' = TRUE
  /\ callerPc' = "idle"
  /\ UNCHANGED <<hPc, hMsg, bootstraps, fetchSnap, tickCalls, nReceived, received,
                 delivered, droppedCovered, flushRun>>

\* pImpl->onTick(tick) as seen by the current bootstrap's consumer
tickCallsAfter ==
  IF bootstraps > 0 /\ onTick = BootstrapCallback(bootstraps)
  THEN tickCalls + 1 ELSE tickCalls

\* flushBuffer: the bufferingEnabled_ test and the lock_guard
flushBegin ==
  /\ callerPc = "idle"
  /\ IF ~bufferingEnabled_
     THEN /\ flushRun' = [ran |-> FALSE, returned |-> TRUE, input |-> wsMessageBuffer_,
                          watermark |-> lastRestTradeId_, output |-> <<>>]
          /\ UNCHANGED callerPc
     ELSE /\ flushRun' = [ran |-> TRUE, returned |-> FALSE, input |-> wsMessageBuffer_,
                          watermark |-> lastRestTradeId_, output |-> <<>>]
          /\ callerPc' = "flushing"
  /\ UNCHANGED <<rcState, hPc, hMsg, bootstraps, fetchSnap, historyCalls, tickCalls,
                 nReceived, received, delivered, droppedCovered>>

\* flushBuffer: one turn of the while loop, under bufferMutex_
flushStep ==
  /\ callerPc = "flushing"
  /\ wsMessageBuffer_ # <<>>
  /\ LET msg == Head(wsMessageBuffer_)
         tradeId == msg.a
     IN /\ wsMessageBuffer_' = Tail(wsMessageBuffer_)
        /\ IF tradeId <= lastRestTradeId_
           THEN /\ droppedCovered' = droppedCovered \cup {tradeId}
                /\ UNCHANGED <<seenTradeIds_, delivered, tickCalls, flushRun>>
           ELSE /\ seenTradeIds_' = seenTradeIds_ \cup {tradeId}
                /\ IF onTick # NoCallback
                   THEN /\ delivered' = Append(delivered, tradeId)
                        /\ tickCalls' = tickCallsAfter
                        /\ flushRun' = [flushRun EXCEPT !.output = Append(@, tradeId)]
                   ELSE UNCHANGED <<delivered, tickCalls, flushRun>>
                /\ UNCHANGED droppedCovered
  /\ UNCHANGED <<bufferingEnabled_, lastRestTradeId_, activeSymbol, onTick, onMessage,
                 wsRunning, isSubscribed, rcPcs, bootstraps, fetchSnap, historyCalls,
                 nReceived, received>>

\* flushBuffer: the loop ends on an empty buffer and the lock is released
flushEnd ==
  /\ callerPc = "flushing"
  /\ wsMessageBuffer_ = <<>>
  /\ callerPc' = "idle"
  /\ flushRun' = [flushRun EXCEPT !.returned = TRUE]
  /\ UNCHANGED <<rcState, hPc, hMsg, bootstraps, fetchSnap, historyCalls, tickCalls,
                 nReceived, received, delivered, droppedCovered>>

\* --- the websocket thread: the lambda set by subscribeAggTrades ---

\* an aggTrade message arrives: parse, read the id, test bufferingEnabled_
wsMessage(msg) ==
  /\ wsRunning /\ onMessage
  /\ hPc = "idle"
  /\ nReceived < MaxMsgs
  /\ nReceived' = nReceived + 1
  /\ received' = received \cup {msg.a}
  /\ hMsg' = msg
  /\ hPc' = IF bufferingEnabled_ THEN "push" ELSE "dispatch"
  /\ UNCHANGED <<rcState, callerPc, bootstraps, fetchSnap, historyCalls, tickCalls,
                 delivered, droppedCovered, flushRun>>

\* the buffering branch: lock bufferMutex_, push, return
handlerPush ==
  /\ hPc = "push"
  /\ callerPc # "flushing"
  /\ wsMessageBuffer_' = Append(wsMessageBuffer_, hMsg)
  /\ hPc' = "idle"
  /\ hMsg' = [a |-> 0]
  /\ UNCHANGED <<bufferingEnabled_, seenTradeIds_, lastRestTradeId_, activeSymbol,
                 onTick, onMessage, wsRunning, isSubscribed, callerPc, rcObs>>

\* flushBuffer is inside its loop in a call that inserts into seenTradeIds_: its
\* buffer held an id above the watermark
flushInserting ==
  /\ callerPc = "flushing"
  /\ \E i \in 1..Len(flushRun.input) : flushRun.input[i].a > flushRun.watermark

\* the direct branch: id-based deduplication, then the callback. seenTradeIds_ is
\* read and written here without bufferMutex_; while flushBuffer is inserting
\* into it on the other thread the lookup's answer is not determined.
handlerDispatch ==
  /\ hPc = "dispatch"
  /\ hPc' = "idle"
  /\ hMsg' = [a |-> 0]
  /\ LET tradeId == hMsg.a IN
     \E seenHit \in IF flushInserting THEN BOOLEAN
                    ELSE {tradeId \in seenTradeIds_} :
       IF tradeId > 0 /\ tradeId <= lastRestTradeId_
       THEN /\ droppedCovered' = droppedCovered \cup {tradeId}
            /\ UNCHANGED <<seenTradeIds_, delivered, tickCalls>>
       ELSE IF tradeId > 0 /\ seenHit
       THEN UNCHANGED <<seenTradeIds_, delivered, tickCalls, droppedCovered>>
       ELSE /\ seenTradeIds_' = IF tradeId > 0 THEN seenTradeIds_ \cup {tradeId}
                                ELSE seenTradeIds_
            /\ IF onTick # NoCallback
               THEN /\ delivered' = Append(delivered, tradeId)
                    /\ tickCalls' = tickCallsAfter
               ELSE UNCHANGED <<delivered, tickCalls>>
            /\ UNCHANGED droppedCovered
  /\ UNCHANGED <<bufferingEnabled_, wsMessageBuffer_, lastRestTradeId_, activeSymbol,
                 onTick, onMessage, wsRunning, isSubscribed, callerPc,
                 bootstraps, fetchSnap, historyCalls, nReceived, received, flushRun>>


(***************************************************************************)
(* Store: database/Database.cpp, tables ticks and candles of one symbol    *)
(***************************************************************************)
candleInterval == 60000
maxCandlesInMemory == 10000
maxGapMs == 60000
maxLimit == 1000
days == 7

\* chunkSize of fetchHistoricalAggTrades
chunkSize == maxLimit * 1000
\* days * 24 * 60 * 60 * 1000
HistoryWindowMs == days * 24 * 60 * 60 * 1000

\* the aggregate trades the exchange may hold: a is the aggregate trade id, T
\* the trade time; 1..3 are a week old, 4 and 5 are recent
ExchangeUniverse ==
  { [a |-> 1, T |-> 100000, p |-> 1, q |-> 1, m |-> FALSE],
    [a |-> 2, T |-> 125000, p |-> 1, q |-> 2, m |-> TRUE],
    [a |-> 3, T |-> 130000, p |-> 1, q |-> 1, m |-> FALSE],
    [a |-> 4, T |-> 604889000, p |-> 1, q |-> 2, m |-> FALSE],
    [a |-> 5, T |-> 604949500, p |-> 1, q |-> 1, m |-> TRUE] }

\* the instants at which the program reads the clock
ClockValues == <<604890000, 604950000>>

\* the Tick built from an aggTrade (REST array element or stream event): the
\* aggregate trade id is not kept
TickOf(trade) ==
  [timestamp_ms |-> trade.T, price |-> trade.p, quantity |-> trade.q,
   is_buyer_maker |-> trade.m]

RECURSIVE TicksInIdOrder(_)
\* the exchange answers with the trades in ascending id order
TicksInIdOrder(trades) ==
  IF trades = {} THEN <<>>
  ELSE LET t == CHOOSE t \in trades : \A u \in trades : t.a <= u.a
       IN <<TickOf(t)>> \o TicksInIdOrder(trades \ {t})

\* the request of the loop of fetchHistoricalAggTrades that covers time T
ChunkOf(startTime, T) == (T - startTime) \div (chunkSize + 1)

\* BinanceClient::fetchHistoricalAggTrades: requests of chunkSize ms each from
\* startTime while currentStart < endTime; failed are the requests that came
\* back empty or unparsable
fetchHistoricalAggTrades(startTime, endTime, failed) ==
  IF ~(startTime < endTime) THEN <<>>
  ELSE TicksInIdOrder({t \in exchange :
                         /\ startTime <= t.T /\ t.T <= endTime
                         /\ ChunkOf(startTime, t.T) \notin failed})

\* the requests of a fetch that have a trade to return
ChunksWithTrades(startTime, endTime) ==
  {ChunkOf(startTime, t.T) : t \in {u \in exchange : startTime <= u.T /\ u.T <= endTime}}

\* the row of table ticks an INSERT creates: id INTEGER PRIMARY KEY
\* AUTOINCREMENT is one more than the largest id in use (no row is deleted here)
TickRow(table, t) ==
  [id |-> IF table = {} THEN 1 ELSE MaxOf({r.id : r \in table}) + 1,
   timestamp_ms |-> t.timestamp_ms, price |-> t.price, quantity |-> t.quantity,
   is_buyer_maker |-> t.is_buyer_maker]

\* a slip: the table lacks UNIQUE(symbol, timestamp_ms, price, quantity), so
\* OR IGNORE never applies and every INSERT adds a row
insertTick_without_unique(table, t) == table \cup {TickRow(table, t)}

\* one INSERT OR IGNORE of Database::insertTicks under UNIQUE(symbol,
\* timestamp_ms, price, quantity), on the rows of the symbol
insertTick(table, t) ==
  IF \E r \in table : /\ r.timestamp_ms = t.timestamp_ms
                       /\ r.price = t.price
                       /\ r.quantity = t.quantity
  THEN table
  ELSE table \cup {TickRow(table, t)}

RECURSIVE insertTicks(_, _)
\* Database::insertTicks: the loop over the ticks, on the rows of the symbol
insertTicks(table, ticks) ==
  IF ticks = <<>> THEN table
  ELSE insertTicks(insertTick(table, Head(ticks)), Tail(ticks))

\* Database::getLatestTickTime: SELECT MAX(timestamp_ms); no value on no row
getLatestTickTime(table) ==
  IF table = {} THEN {} ELSE {MaxOf({r.timestamp_ms : r \in table})}

\* Database::getEarliestTickTime: SELECT MIN(timestamp_ms)
getEarliestTickTime(table) ==
  IF table = {} THEN {} ELSE {MinOf({r.timestamp_ms : r \in table})}

\* the columns of a row of table candles
RowOf(c) ==
  [start_time_ms |-> c.start_time_ms, end_time_ms |-> c.end_time_ms,
   open |-> c.open, high |-> c.high, low |-> c.low, close |-> c.close,
   volume |-> c.volume]

\* the Candle Database::getCandles builds from a row: no footprint
CandleOfRow(r) ==
  [start_time_ms |-> r.start_time_ms, end_time_ms |-> r.end_time_ms,
   open |-> r.open, high |-> r.high, low |-> r.low, close |-> r.close,
   volume |-> r.volume, footprint_profile |-> <<>>]

\* a slip: INSERT OR IGNORE instead of INSERT OR REPLACE, the first row of a
\* key stays
insertCandle_or_ignore(table, c) ==
  IF \E r \in table : r.start_time_ms = c.start_time_ms THEN table
  ELSE table \cup {RowOf(c)}

\* one INSERT OR REPLACE of Database::insertCandles under UNIQUE(symbol,
\* start_time_ms), on the rows of the symbol
insertCandle(table, c) ==
  {r \in table : r.start_time_ms # c.start_time_ms} \cup {RowOf(c)}

RECURSIVE insertCandles(_, _)
\* Database::insertCandles: the loop over the candles, on the rows of the symbol
insertCandles(table, candles) ==
  IF candles = <<>> THEN table
  ELSE insertCandles(insertCandle(table, Head(candles)), Tail(candles))

RECURSIVE RowsByStart(_)
\* ORDER BY start_time_ms ASC
RowsByStart(rows) ==
  IF rows = {} THEN <<>>
  ELSE LET r == CHOOSE r \in rows : \A u \in rows : r.start_time_ms <= u.start_time_ms
       IN <<CandleOfRow(r)>> \o RowsByStart(rows \ {r})

\* Database::getCandles
getCandles(table, startTime, endTime) ==
  RowsByStart({r \in table : startTime <= r.start_time_ms /\ r.start_time_ms <= endTime})

RECURSIVE TimesAscending(_)
\* SELECT timestamp_ms ... ORDER BY timestamp_ms ASC
TimesAscending(rows) ==
  IF rows = {} THEN <<>>
  ELSE LET r == CHOOSE r \in rows : \A u \in rows : r.timestamp_ms <= u.timestamp_ms
       IN <<r.timestamp_ms>> \o TimesAscending(rows \ {r})

\* a slip: a delta equal to the threshold counts as a gap
gapExceeds_or_equals(gap, maxGap) == gap >= maxGap

\* `if (gap > maxGapMs)`
gapExceeds(gap, maxGap) == gap > maxGap

RECURSIVE detectGapsFrom(_, _, _, _, _)
\* the while loop of Database::detectGaps over the remaining result rows
detectGapsFrom(times, prevTime, first, startTime, maxGap) ==
  IF times = <<>> THEN <<>>
  ELSE LET currentTime == Head(times)
           found ==
             IF ~first
             THEN IF gapExceeds(currentTime - prevTime, maxGap)
                  THEN <<[startTime |-> prevTime, endTime |-> currentTime]>>
                  ELSE <<>>
             ELSE IF /\ startTime > 0
                     /\ (prevTime = 0 \/ prevTime > startTime)
                     /\ gapExceeds(currentTime - startTime, maxGap)
                  THEN <<[startTime |-> startTime, endTime |-> currentTime]>>
                  ELSE <<>>
       IN found \o detectGapsFrom(Tail(times), currentTime, FALSE, startTime, maxGap)

\* a slip: the rows are not restricted to the window
detectGaps_whole_table(table, startTime, endTime, maxGap) ==
  detectGapsFrom(TimesAscending(table), 0, TRUE, startTime, maxGap)

\* Database::detectGaps(symbol, startTime, endTime, maxGapMs), on the rows of
\* the symbol
detectGaps(table, startTime, endTime, maxGap) ==
  detectGapsFrom(
    TimesAscending({r \in table : startTime <= r.timestamp_ms /\ r.timestamp_ms <= endTime}),
    0, TRUE, startTime, maxGap)

(***************************************************************************)
(* Backfill orchestrator: core/DataManager.cpp                             *)
(***************************************************************************)
\* candleStart of processTicksToCandles
Bucket(t) == (t \div candleInterval) * candleInterval

RECURSIVE AddTicks(_, _)
\* `for (tick : candleTicks) candle.add_tick(tick);`
AddTicks(c, ticks) ==
  IF ticks = <<>> THEN c ELSE AddTicks(add_tick(c, Head(ticks)), Tail(ticks))

RECURSIVE CandlesOfBuckets(_, _)
\* the loop over ticksByCandle (a std::map: ascending candleStart)
CandlesOfBuckets(starts, ticks) ==
  IF starts = {} THEN <<>>
  ELSE LET startTime == MinOf(starts)
           candleTicks == SelectSeq(ticks, LAMBDA t : Bucket(t.timestamp_ms) = startTime)
       IN <<AddTicks(NewCandle(startTime, startTime + candleInterval), candleTicks)>>
          \o CandlesOfBuckets(starts \ {startTime}, ticks)

\* processTicksToCandles: the candles built from the ticks it is given
CandlesOfTicks(ticks) ==
  CandlesOfBuckets({Bucket(ticks[i].timestamp_ms) : i \in 1..Len(ticks)}, ticks)

\* processTicksToCandles: one new candle merged into the cached ones
MergeCandle(existingCandles, newCandle) ==
  IF \E i \in 1..Len(existingCandles) :
       existingCandles[i].start_time_ms = newCandle.start_time_ms
  THEN LET i == MinOf({j \in 1..Len(existingCandles) :
                         existingCandles[j].start_time_ms = newCandle.start_time_ms})
       IN [existingCandles EXCEPT ![i] = newCandle]
  ELSE Append(existingCandles, newCandle)

RECURSIVE MergeCandles(_, _)
MergeCandles(existingCandles, candles) ==
  IF candles = <<>> THEN existingCandles
  ELSE MergeCandles(MergeCandle(existingCandles, Head(candles)), Tail(candles))

RECURSIVE InsertByStart(_, _)
InsertByStart(sorted, c) ==
  IF sorted = <<>> THEN <<c>>
  ELSE IF c.start_time_ms < Head(sorted).start_time_ms THEN <<c>> \o sorted
  ELSE <<Head(sorted)>> \o InsertByStart(Tail(sorted), c)

RECURSIVE SortByStart(_)
\* std::sort by start_time_ms
SortByStart(candles) ==
  IF candles = <<>> THEN <<>>
  ELSE InsertByStart(SortByStart(SubSeq(candles, 1, Len(candles) - 1)),
                     candles[Len(candles)])

\* DataManager::processTicksToCandles: the candles table and the cache after it
processTicksToCandles(ticks) ==
  IF ticks = <<>>
  THEN [table |-> candlesTable, cache |-> candlesBySymbol_]
  ELSE LET candles == CandlesOfTicks(ticks)
       IN [table |-> insertCandles(candlesTable, candles),
           cache |-> SortByStart(MergeCandles(candlesBySymbol_, candles))]

\* DataManager::loadFromDatabase: the cache it installs, reading the clock anew
loadFromDatabase ==
  getCandles(candlesTable, now - HistoryWindowMs, now)

\* a slip: the fetch of the recent span follows the full fetch as well
fetchFullHistory_then_recent(startTime, endTime) ==
  <<[startTime |-> startTime, endTime |-> endTime],
    [startTime |-> endTime - 300000, endTime |-> endTime]>>

\* the branch `!latestTime.has_value()`: fetchMissingData(startTime, now)
fetchFullHistory(startTime, endTime) ==
  <<[startTime |-> startTime, endTime |-> endTime]>>

\* a slip: the loop over the gaps stops after the first gap
gapFetches_first_gap_only(gaps) ==
  IF gaps = <<>> THEN <<>> ELSE <<Head(gaps)>>

\* `for (const auto& gap : gaps)`: one fetchMissingData per gap, gaps under
\* 60000 ms skipped
gapFetches(gaps) ==
  SelectSeq(gaps, LAMBDA gap : ~(gap.endTime - gap.startTime < 60000))

\* detectAndFillGaps up to its first fetch: the fetchMissingData calls it
\* decides on from the clock and the ticks table
PlannedFetches ==
  LET startTime == now - HistoryWindowMs
      latestTime == getLatestTickTime(ticksTable)
      earliestTime == getEarliestTickTime(ticksTable)
  IN IF latestTime = {}
     THEN fetchFullHistory(startTime, now)
     ELSE LET latest == MaxOf(latestTime)
          IN IF earliestTime = {} \/ MinOf(earliestTime) > startTime
             THEN <<[startTime |-> startTime, endTime |-> latest]>>
             ELSE gapFetches(detectGaps(ticksTable, startTime, latest, maxGapMs))
                  \o (IF latest < now - 300000
                      THEN <<[startTime |-> latest, endTime |-> now]>>
                      ELSE <<>>)

NoBackfill ==
  [fromEmpty |-> FALSE, fetched |-> <<>>, done |-> FALSE, result |-> <<>>,
   skipped |-> FALSE, updates |-> 0]

\* a slip: no callback is registered, `if (onDataUpdate_)` finds nothing to call
onDataUpdate_unset(updates) == updates

\* `if (onDataUpdate_) onDataUpdate_();` with the callback registered: the
\* calls are counted modulo 3
onDataUpdate(updates) == (updates + 1) % 3

\* a slip: a fetch that brought nothing ends the run
remainingFetches_abort_on_empty(plan, fetchedTicks) ==
  IF fetchedTicks = <<>> THEN <<>> ELSE Tail(plan)

\* fetchMissingData returns to detectAndFillGaps, which goes on to its next call
remainingFetches(plan, fetchedTicks) == Tail(plan)

\* DataManager and Database after construction and initialize(); the exchange
\* holds some trades and the clock stands at its first value
InitDataManagerVars ==
  /\ now = ClockValues[1]
  /\ exchange \in SUBSET ExchangeUniverse
  /\ ticksTable = {}
  /\ candlesTable = {}
  /\ candlesBySymbol_ = <<>>
  /\ isLoadingHistory_ = FALSE
  /\ dgPc = "idle"
  /\ dgPlan = <<>>
  /\ liveNext = 1
  /\ backfill = NoBackfill

\* the same with an exchange that holds nothing
IdleDataManagerVars == InitDataManagerVars /\ exchange = {}

\* entry of detectAndFillGaps
detectAndFillGaps_begin(cache) ==
  /\ isLoadingHistory_' = TRUE
  /\ dgPlan' = PlannedFetches
  /\ dgPc' = "fetching"
  /\ backfill' = [fromEmpty |-> ticksTable = {} /\ candlesTable = {} /\ cache = <<>>,
                  fetched |-> <<>>, done |-> FALSE, result |-> <<>>,
                  skipped |-> FALSE, updates |-> backfill.updates]
  /\ UNCHANGED <<now, exchange, ticksTable, candlesTable, liveNext>>

\* DataManager::loadSymbolData up to the first fetch of detectAndFillGaps
loadSymbolData ==
  /\ dgPc = "idle"
  /\ candlesBySymbol_' = loadFromDatabase
  /\ detectAndFillGaps_begin(candlesBySymbol_')

\* DataManager::refreshData up to the first fetch of detectAndFillGaps
refreshData ==
  /\ dgPc = "idle"
  /\ UNCHANGED candlesBySymbol_
  /\ detectAndFillGaps_begin(candlesBySymbol_)

\* DataManager::fetchMissingData, the next call detectAndFillGaps makes
fetchMissingData ==
  /\ dgPc = "fetching"
  /\ dgPlan # <<>>
  /\ LET startTime == Head(dgPlan).startTime
         endTime == Head(dgPlan).endTime
     IN \E failed \in SUBSET ChunksWithTrades(startTime, endTime) :
          LET fetchedTicks == fetchHistoricalAggTrades(startTime, endTime, failed)
              after == processTicksToCandles(fetchedTicks)
          IN /\ ticksTable' = insertTicks(ticksTable, fetchedTicks)
             /\ candlesTable' = after.table
             /\ candlesBySymbol_' = after.cache
             /\ backfill' = [backfill EXCEPT !.fetched = @ \o fetchedTicks,
                                             !.skipped = @ \/ fetchedTicks = <<>>]
             /\ dgPlan' = remainingFetches(dgPlan, fetchedTicks)
  /\ UNCHANGED <<now, exchange, isLoadingHistory_, dgPc, liveNext>>

\* the end of detectAndFillGaps: loadFromDatabase, onDataUpdate_, and the
\* candles getCandles(symbol) returns from then on
detectAndFillGaps_reload ==
  /\ dgPc = "fetching"
  /\ dgPlan = <<>>
  /\ candlesBySymbol_' = loadFromDatabase
  /\ isLoadingHistory_' = FALSE
  /\ dgPc' = "idle"
  /\ backfill' = [backfill EXCEPT !.done = TRUE, !.result = candlesBySymbol_',
                                  !.updates = onDataUpdate(@)]
  /\ UNCHANGED <<now, exchange, ticksTable, candlesTable, dgPlan, liveNext>>

\* DataManager::addLiveTick(symbol, tick): the cache, the tables and the
\* notification
addLiveTick_call(trade) ==
  /\ LET tick == TickOf(trade)
         fresh == add_tick(NewCandle(0, 0), tick)
         start == (tick.timestamp_ms \div 60000) * 60000
         single == [fresh EXCEPT !.start_time_ms = start, !.end_time_ms = start + 60000]
         candles == candlesBySymbol_
         n == Len(candles)
         sameBucket == candles # <<>> /\ candles[n].start_time_ms = single.start_time_ms
         updated == IF sameBucket
                    THEN [candles EXCEPT ![n] = add_tick(candles[n], tick)]
                    ELSE Append(candles, single)
         m == Len(updated)
     IN /\ candlesTable' = insertCandles(candlesTable, <<updated[m]>>)
        /\ candlesBySymbol_' = IF m > maxCandlesInMemory
                               THEN SubSeq(updated, m - maxCandlesInMemory + 1, m)
                               ELSE updated
        /\ ticksTable' = insertTicks(ticksTable, <<tick>>)
  /\ backfill' = [backfill EXCEPT
                    !.fromEmpty = IF dgPc = "fetching" THEN FALSE ELSE @,
                    !.updates = onDataUpdate(@)]
  /\ UNCHANGED <<now, exchange, isLoadingHistory_, dgPc, dgPlan>>

\* DataManager::addLiveTick with a trade the live stream delivers: a trade of
\* the last minute, each trade once, in id order
addLiveTick(trade) ==
  /\ trade \in exchange
  /\ trade.a >= liveNext
  /\ trade.T <= now /\ now - trade.T < 60000
  /\ liveNext' = trade.a + 1
  /\ addLiveTick_call(trade)

\* DataManager::addLiveTick with a trade the stream delivers out of order: the
\* stream has moved past its id and the trade was never handed over
addLiveTick_late(trade) ==
  /\ trade \in exchange
  /\ trade.a < liveNext
  /\ trade.T <= now
  /\ \A r \in ticksTable : r.timestamp_ms # trade.T
  /\ UNCHANGED liveNext
  /\ addLiveTick_call(trade)

\* time passes
clockAdvance ==
  /\ \E i \in 1..(Len(ClockValues) - 1) : now = ClockValues[i] /\ now' = ClockValues[i + 1]
  /\ UNCHANGED <<exchange, ticksTable, candlesTable, candlesBySymbol_,
                 isLoadingHistory_, dgPc, dgPlan, liveNext, backfill>>

(***************************************************************************)
(* Chart aggregator: core/ChartDataManager.h                               *)
(***************************************************************************)
\* enum class Timeframe: M1 and M5
Timeframes == {60 * 1000, 5 * 60 * 1000}

ChartTimes == {1000, 71000, 130000, 310000}
ChartTicks == [timestamp_ms : ChartTimes, price : {1, 2}, quantity : {1},
               is_buyer_maker : {FALSE}]

\* the tick lists handed to setHistoricalData
HistoricalTicks ==
  LET ticks == {t \in ChartTicks : t.price = 1}
  IN {<<>>} \cup {<<a>> : a \in ticks} \cup {<<a, b>> : a \in ticks, b \in ticks}

\* no setHistoricalData call in progress, mutex_ free
NoHistoricalCall ==
  [at |-> "idle", mutex_ |-> FALSE, ticks |-> <<>>]

\* ChartDataManager(Timeframe::M1)
InitChartVars ==
  /\ timeframe_ = 60 * 1000
  /\ candles_ = <<>>
  /\ currentCandle_ = NewCandle(0, 0)
  /\ chartTicks = <<>>
  /\ setHistoricalCall = NoHistoricalCall

\* ChartDataManager::addTick: candles_ and currentCandle_ after the call
addTickResult(tick) ==
  LET candleStartTime == (tick.timestamp_ms \div timeframe_) * timeframe_
      candleEndTime == candleStartTime + timeframe_
  IN IF currentCandle_.start_time_ms = 0
     THEN [candles |-> candles_,
           current |-> add_tick([currentCandle_ EXCEPT
                                   !.start_time_ms = candleStartTime,
                                   !.end_time_ms = candleEndTime], tick)]
     ELSE IF candleStartTime > currentCandle_.start_time_ms
     THEN [candles |-> IF currentCandle_.volume > 0
                       THEN Append(candles_, currentCandle_) ELSE candles_,
           current |-> add_tick(NewCandle(candleStartTime, candleEndTime), tick)]
     ELSE [candles |-> candles_, current |-> add_tick(currentCandle_, tick)]

\* ChartDataManager::addTick
addTick(tick) ==
  /\ Len(chartTicks) < MaxChartTicks
  /\ setHistoricalCall.at = "idle"
  /\ candles_' = addTickResult(tick).candles
  /\ currentCandle_' = addTickResult(tick).current
  /\ chartTicks' = Append(chartTicks, tick)
  /\ UNCHANGED <<timeframe_, setHistoricalCall>>

\* ChartDataManager::setTimeframe
setTimeframe(timeframe) ==
  /\ setHistoricalCall.at = "idle"
  /\ timeframe_' = timeframe
  /\ candles_' = <<>>
  /\ currentCandle_' = NewCandle(0, 0)
  /\ chartTicks' = <<>>
  /\ UNCHANGED setHistoricalCall

\* std::mutex::lock by the thread that owns the mutex is undefined behaviour:
\* the call blocks for ever, throws std::system_error
\* (resource_deadlock_would_occur), or returns
relock == {"blocks", "throws", "proceeds"}

\* ChartDataManager::setHistoricalData(ticks) up to its loop: lock_guard on
\* mutex_, candles_.clear(), currentCandle_ = Candle()
setHistoricalData(ticks) ==
  /\ setHistoricalCall.at = "idle"
  /\ candles_' = <<>>
  /\ currentCandle_' = NewCandle(0, 0)
  /\ chartTicks' = <<>>
  /\ setHistoricalCall' = IF ticks = <<>>
                          THEN NoHistoricalCall
                          ELSE [at |-> "loop", mutex_ |-> TRUE, ticks |-> ticks]
  /\ UNCHANGED timeframe_

\* `for (const auto &tick : ticks) addTick(tick);` one iteration: addTick
\* constructs its own lock_guard on mutex_, which this thread holds
setHistoricalData_addTick ==
  /\ setHistoricalCall.at = "loop"
  /\ \E outcome \in relock :
       LET done == Len(chartTicks)
           tick == setHistoricalCall.ticks[done + 1]
       IN CASE outcome = "blocks" ->
                 /\ setHistoricalCall' = [setHistoricalCall EXCEPT !.at = "blocked"]
                 /\ UNCHANGED <<candles_, currentCandle_, chartTicks>>
            [] outcome = "throws" ->
                 /\ setHistoricalCall' =
                      [setHistoricalCall EXCEPT !.at = "thrown", !.mutex_ = FALSE]
                 /\ UNCHANGED <<candles_, currentCandle_, chartTicks>>
            [] outcome = "proceeds" ->
                 /\ candles_' = addTickResult(tick).candles
                 /\ currentCandle_' = addTickResult(tick).current
                 /\ chartTicks' = Append(chartTicks, tick)
                 /\ setHistoricalCall' =
                      IF done + 1 = Len(setHistoricalCall.ticks)
                      THEN NoHistoricalCall
                      ELSE setHistoricalCall
  /\ UNCHANGED timeframe_

(***************************************************************************)
(* Store interface: database/Database.cpp, calls with a symbol             *)
(***************************************************************************)
Symbols == {"BTCUSDT", "ETHUSDT"}

\* AppSettings::defaultSymbol
DefaultSymbol == "BTCUSDT"

StoreTick(t) == [timestamp_ms |-> t, price |-> 1, quantity |-> 1, is_buyer_maker |-> FALSE]

\* the batches a caller hands to insertTicks: trades in time order
TickBatches ==
  { <<>>, <<StoreTick(1000)>>, <<StoreTick(61000)>>, <<StoreTick(71000)>>,
    <<StoreTick(1000), StoreTick(61000)>>, <<StoreTick(1000), StoreTick(71000)>>,
    <<StoreTick(61000), StoreTick(71000)>> }

StoreCandle(start, v) ==
  [NewCandle(start, start + 60000) EXCEPT !.open = 1, !.high = 1, !.low = 1,
                                          !.close = 1, !.volume = v]

\* the batches a caller hands to insertCandles
CandleBatches ==
  { <<>>, <<StoreCandle(60000, 1)>>, <<StoreCandle(60000, 2)>>,
    <<StoreCandle(120000, 1)>>,
    <<StoreCandle(60000, 1), StoreCandle(60000, 2)>>,
    <<StoreCandle(60000, 1), StoreCandle(120000, 1)>> }

\* what sqlite can answer inside a write: all statements succeed, prepare
\* fails, the first sqlite3_step fails, COMMIT fails and the transaction is
\* rolled back
Faults == {"none", "prepare", "step", "commit"}

GapWindowStarts == {0, 500, 1000}
GapWindowEnd == 100000
GapThresholds == {maxGapMs, 80000}

NoCall ==
  [op |-> "none", symbol |-> "", ticks |-> <<>>, candles |-> <<>>,
   fault |-> "none", open |-> TRUE, result |-> TRUE,
   before |-> [s \in Symbols |-> {}], again |-> FALSE,
   startTime |-> 0, maxGap |-> 0, times |-> <<>>, gaps |-> <<>>]

\* KEEP_DAYS of the cleanup thread
KEEP_DAYS == 7

\* the clock readings at which the cleanup thread calls cleanupOldData
CleanupClocks == {604861000, 604900000}

NoCleanup == [pc |-> "idle", cutoffTime |-> 0, oldTicks |-> FALSE]

(***************************************************************************)
(* The live pipeline of main(): the stream-delivery thread invoking the    *)
(* registered live-trade callback, ThreadSafeQueue<Tick> tickQueue, the    *)
(* processing worker, and the threads that call into DataManager under     *)
(* dataMutex_ and symbolMutex_ (main.cpp, core/ThreadSafeQueue.h,          *)
(* core/DataManager.cpp, network/ApiHandler.cpp)                           *)
(***************************************************************************)
\* networkThread delivers the trades, processingThread drains tickQueue, the
\* thread of the websocket server handles the frontend's messages, the main
\* thread shuts the application down
Threads == {"network", "processing", "api", "main"}

\* the DataManager member functions that mutate one of its maps
ManagerOps == {"loadFromDatabase", "processTicksToCandles", "addLiveTick",
               "loadSymbols", "fetchExchangeInfoFromApi", "updateSymbolPrice"}

\* the member functions the message thread and the main thread call; addLiveTick
\* is called from the trade callbacks only
CallableOps == ManagerOps \ {"addLiveTick"}

\* the map an operation mutates: candlesBySymbol_, or symbols_ with its indices
\* symbolsByQuoteAsset_ and symbolsByBaseAsset_
mapOf(op) ==
  IF op \in {"loadFromDatabase", "processTicksToCandles", "addLiveTick"}
  THEN "candlesBySymbol_"
  ELSE "symbols_"

mutexOf_addLiveTick_unlocked(op) ==
  IF op = "addLiveTick" THEN "none"
  ELSE IF op \in {"loadFromDatabase", "processTicksToCandles"} THEN "dataMutex_"
  ELSE "symbolMutex_"

\* the std::lock_guard an operation constructs before it touches the map
mutexOf(op) ==
  IF op \in {"loadFromDatabase", "processTicksToCandles", "addLiveTick"}
  THEN "dataMutex_"
  ELSE "symbolMutex_"

notifyAll_missing(waiters) == {}

\* cond_.notify_all(): every thread in cond_.wait is woken
notifyAll(waiters) == waiters

\* the threads in cond_.wait
Waiters == {t \in Threads : threads[t].at = "waiting"}

\* where a thread goes on when addLiveTick returns
AfterAddLiveTick(t) == IF t = "processing" THEN "pop" ELSE "idle"

InitPipelineVars ==
  /\ tickQueue = [queue_ |-> <<>>, valid_ |-> TRUE, notified |-> {}]
  /\ threads = [t \in Threads |->
                  [at |-> IF t = "processing" THEN "pop" ELSE "idle",
                   op |-> "none", tick |-> 0]]
  /\ mutexes = [dataMutex_ |-> "none", symbolMutex_ |-> "none"]
  /\ storeWrites = {}
  /\ tradeCallback = "main"

\* ThreadSafeQueue::push from the callback main() registers: the delivery thread
\* appends the trade and notifies one waiter
callbackOfMain ==
  /\ tradeCallback = "main"
  /\ threads["network"].at = "idle"
  /\ threads["network"].tick < MaxLiveTicks
  /\ threads' = [threads EXCEPT !["network"].tick = @ + 1]
  /\ \E woken \in {w \in SUBSET Waiters :
                     IF Waiters = {} THEN w = {} ELSE Cardinality(w) = 1} :
       tickQueue' = [tickQueue EXCEPT
                       !.queue_ = Append(@, threads["network"].tick + 1),
                       !.notified = @ \cup woken]
  /\ UNCHANGED <<mutexes, storeWrites, tradeCallback>>

\* the callback ApiHandler::handleSubscribe registers: the delivery thread
\* broadcasts the trade and calls dataManager_->addLiveTick(tick)
callbackOfHandleSubscribe ==
  /\ tradeCallback = "api"
  /\ threads["network"].at = "idle"
  /\ threads["network"].tick < MaxLiveTicks
  /\ threads' = [threads EXCEPT !["network"] =
                   [at |-> "lock", op |-> "addLiveTick", tick |-> @.tick + 1]]
  /\ UNCHANGED <<tickQueue, mutexes, storeWrites, tradeCallback>>

\* ApiHandler::handleSubscribe on the message thread: subscribeAggTrades
\* replaces the registered callback
handleSubscribe ==
  /\ threads["api"].at = "idle"
  /\ tradeCallback' = "api"
  /\ UNCHANGED <<tickQueue, threads, mutexes, storeWrites>>

\* what pop() does once its wait is over: nullopt when the queue is invalid,
\* the front element otherwise, which the worker passes to addLiveTick
popReturn(t) ==
  IF ~tickQueue.valid_
  THEN /\ threads' = [threads EXCEPT ![t].at = "exited"]
       /\ UNCHANGED tickQueue
  ELSE /\ threads' = [threads EXCEPT ![t] =
                        [at |-> "lock", op |-> "addLiveTick",
                         tick |-> Head(tickQueue.queue_)]]
       /\ tickQueue' = [tickQueue EXCEPT !.queue_ = Tail(@)]

\* ThreadSafeQueue::pop up to cond_.wait: the predicate is evaluated under mut_
pop(t) ==
  /\ threads[t].at = "pop"
  /\ IF tickQueue.queue_ # <<>> \/ ~tickQueue.valid_
     THEN popReturn(t)
     ELSE /\ threads' = [threads EXCEPT ![t].at = "waiting"]
          /\ UNCHANGED tickQueue
  /\ UNCHANGED <<mutexes, storeWrites, tradeCallback>>

\* a notified thread leaves cond_.wait, takes mut_ and evaluates the predicate
\* again
popWake(t) ==
  /\ threads[t].at = "waiting"
  /\ t \in tickQueue.notified
  /\ IF tickQueue.queue_ # <<>> \/ ~tickQueue.valid_
     THEN /\ threads' = [threads EXCEPT ![t] =
                IF ~tickQueue.valid_
                THEN [@ EXCEPT !.at = "exited"]
                ELSE [at |-> "lock", op |-> "addLiveTick",
                      tick |-> Head(tickQueue.queue_)]]
          /\ tickQueue' = [tickQueue EXCEPT
                             !.queue_ = IF tickQueue.valid_ THEN Tail(@) ELSE @,
                             !.notified = @ \ {t}]
     ELSE /\ tickQueue' = [tickQueue EXCEPT !.notified = @ \ {t}]
          /\ UNCHANGED threads
  /\ UNCHANGED <<mutexes, storeWrites, tradeCallback>>

\* std::condition_variable::wait may wake without a notification
spuriousWakeup(t) ==
  /\ threads[t].at = "waiting"
  /\ t \notin tickQueue.notified
  /\ tickQueue' = [tickQueue EXCEPT !.notified = @ \cup {t}]
  /\ UNCHANGED <<threads, mutexes, storeWrites, tradeCallback>>

\* tickQueue.invalidate() on the main thread when the window loop returns
invalidate ==
  /\ threads["main"].at = "idle"
  /\ threads' = [threads EXCEPT !["main"].at = "joining"]
  /\ tickQueue' = [tickQueue EXCEPT !.valid_ = FALSE,
                                    !.notified = @ \cup notifyAll(Waiters)]
  /\ UNCHANGED <<mutexes, storeWrites, tradeCallback>>

\* the message thread or the main thread enters a DataManager member function
callManager(t, op) ==
  /\ t \in {"api", "main"}
  /\ threads[t].at = "idle"
  /\ threads' = [threads EXCEPT ![t] = [@ EXCEPT !.at = "lock", !.op = op]]
  /\ UNCHANGED <<tickQueue, mutexes, storeWrites, tradeCallback>>

\* std::lock_guard<std::mutex> lock(...): blocks until the mutex is free
lockGuard(t) ==
  /\ threads[t].at = "lock"
  /\ LET m == mutexOf(threads[t].op) IN
       IF m = "none" THEN UNCHANGED mutexes
       ELSE /\ mutexes[m] = "none"
            /\ mutexes' = [mutexes EXCEPT ![m] = t]
  /\ threads' = [threads EXCEPT ![t].at = "mutate"]
  /\ UNCHANGED <<tickQueue, storeWrites, tradeCallback>>

\* the body under the lock, to the end of the guard's scope; addLiveTick calls
\* database_->insertCandles inside it
leaveGuard(t) ==
  /\ threads[t].at = "mutate"
  /\ LET m == mutexOf(threads[t].op) IN
       mutexes' = IF m # "none" /\ mutexes[m] = t
                  THEN [mutexes EXCEPT ![m] = "none"] ELSE mutexes
  /\ IF threads[t].op = "addLiveTick"
     THEN /\ threads' = [threads EXCEPT ![t].at = "persist"]
          /\ storeWrites' = storeWrites \cup {[thread |-> t, call |-> "insertCandles"]}
     ELSE /\ threads' = [threads EXCEPT ![t] = [@ EXCEPT !.at = "idle", !.op = "none"]]
          /\ UNCHANGED storeWrites
  /\ UNCHANGED <<tickQueue, tradeCallback>>

\* addLiveTick after the guard's scope: database_->insertTicks, then the call
\* of onDataUpdate_
persistTick(t) ==
  /\ threads[t].at = "persist"
  /\ storeWrites' = storeWrites \cup {[thread |-> t, call |-> "insertTicks"]}
  /\ threads' = [threads EXCEPT ![t].at = "notify"]
  /\ UNCHANGED <<tickQueue, mutexes, tradeCallback>>

\* the data-update callback of main on the thread that ran addLiveTick:
\* getCandles and the read of candles.back() through the returned reference,
\* without a lock; then addLiveTick returns
dataUpdateCallback(t) ==
  /\ threads[t].at = "notify"
  /\ threads' = [threads EXCEPT ![t] =
                   [@ EXCEPT !.at = AfterAddLiveTick(t), !.op = "none"]]
  /\ UNCHANGED <<tickQueue, mutexes, storeWrites, tradeCallback>>

\* processingThread.join() and networkThread.join() in main: the worker has
\* left its loop and the network thread's function, connectAndRun, returned
\* after starting the socket; main goes on to cleanupThread.join()
joinWorkers ==
  /\ threads["main"].at = "joining"
  /\ threads["processing"].at = "exited"
  /\ threads' = [threads EXCEPT !["main"].at = "joinCleanup"]
  /\ UNCHANGED <<tickQueue, mutexes, storeWrites, tradeCallback>>

\* the cleanup thread of main: `while (true) { sleep_for(hours(1));
\* database->cleanupOldData(KEEP_DAYS); }`, from the sleep into the call and
\* from the call back into the sleep
cleanupThread ==
  /\ cleanup' = [cleanup EXCEPT !.pc = IF @ = "idle" THEN "cleaning" ELSE "idle"]
  /\ UNCHANGED <<dbVars, plVars>>

\* a step of a thread that is inside a call
threadRuns(t) ==
  \/ pop(t) \/ popWake(t) \/ lockGuard(t) \/ leaveGuard(t) \/ persistTick(t)
  \/ dataUpdateCallback(t)
  \/ (t = "main" /\ joinWorkers)

\* Database() and initialize(): the handle is open, the tables are empty
InitStoreVars ==
  /\ db_ = TRUE
  /\ ticksRows = [s \in Symbols |-> {}]
  /\ candlesRows = [s \in Symbols |-> {}]
  /\ storeCall = NoCall
  /\ storeCalls = 0
  /\ cleanup = NoCleanup
  /\ InitPipelineVars
  /\ currentSymbol_ = DefaultSymbol

\* the rows a write leaves in the table of the symbol
WriteOutcome(before, full, afterFirst, batch, fault) ==
  IF batch = <<>> \/ ~db_ THEN before
  ELSE IF fault = "prepare" \/ fault = "commit" THEN before
  ELSE IF fault = "step" THEN afterFirst
  ELSE full

\* what a write returns
WriteResult(batch, fault) ==
  IF batch = <<>> \/ ~db_ THEN TRUE
  ELSE IF fault = "prepare" THEN FALSE
  ELSE TRUE

\* Database::insertTicks(symbol, ticks)
Database_insertTicks(symbol, ticks, fault) ==
  /\ storeCalls < MaxStoreCalls
  /\ storeCalls' = storeCalls + 1
  /\ ticksRows' = [ticksRows EXCEPT ![symbol] =
                     WriteOutcome(@, insertTicks(@, ticks),
                                  insertTicks(@, Tail(ticks)), ticks, fault)]
  /\ storeCall' = [NoCall EXCEPT
                     !.op = "insertTicks", !.symbol = symbol, !.ticks = ticks,
                     !.fault = fault, !.result = WriteResult(ticks, fault),
                     !.open = db_, !.before = ticksRows,
                     !.again = /\ storeCall.op = "insertTicks"
                               /\ storeCall.symbol = symbol
                               /\ storeCall.ticks = ticks
                               /\ storeCall.fault = "none"
                               /\ db_]
  /\ UNCHANGED <<db_, candlesRows>>

\* Database::insertCandles(symbol, candles)
Database_insertCandles(symbol, candles, fault) ==
  /\ storeCalls < MaxStoreCalls
  /\ storeCalls' = storeCalls + 1
  /\ candlesRows' = [candlesRows EXCEPT ![symbol] =
                       WriteOutcome(@, insertCandles(@, candles),
                                    insertCandles(@, Tail(candles)), candles, fault)]
  /\ storeCall' = [NoCall EXCEPT
                     !.op = "insertCandles", !.symbol = symbol, !.candles = candles,
                     !.fault = fault, !.result = WriteResult(candles, fault),
                     !.open = db_, !.before = candlesRows,
                     !.again = /\ storeCall.op = "insertCandles"
                               /\ storeCall.symbol = symbol
                               /\ storeCall.candles = candles
                               /\ storeCall.fault = "none"
                               /\ db_]
  /\ UNCHANGED <<db_, ticksRows>>

\* Database::detectGaps(symbol, startTime, endTime, maxGapMs) on an open handle
Database_detectGaps(symbol, startTime, endTime, maxGap) ==
  /\ storeCalls < MaxStoreCalls
  /\ db_
  /\ storeCalls' = storeCalls + 1
  /\ storeCall' = [NoCall EXCEPT
                     !.op = "detectGaps", !.symbol = symbol,
                     !.startTime = startTime, !.maxGap = maxGap,
                     !.times = TimesAscending({r \in ticksRows[symbol] :
                                                 /\ startTime <= r.timestamp_ms
                                                 /\ r.timestamp_ms <= endTime}),
                     !.gaps = detectGaps(ticksRows[symbol], startTime, endTime, maxGap)]
  /\ UNCHANGED <<db_, ticksRows, candlesRows>>

\* Database::close
Database_close ==
  /\ db_
  /\ db_' = FALSE
  /\ UNCHANGED <<ticksRows, candlesRows, storeCall, storeCalls>>

\* DELETE FROM ticks WHERE timestamp_ms < cutoffTime
deleteOldTicks(rows, cutoffTime) ==
  [s \in Symbols |-> {r \in rows[s] : ~(r.timestamp_ms < cutoffTime)}]

\* DELETE FROM candles WHERE start_time_ms < cutoffTime
deleteOldCandles(rows, cutoffTime) ==
  [s \in Symbols |-> {r \in rows[s] : ~(r.start_time_ms < cutoffTime)}]

\* Database::cleanupOldData(keepDays) up to the end of its first statement: the
\* cutoff is computed and DELETE FROM ticks runs, in a transaction of its own
cleanupOldData_ticks(clock, keepDays) ==
  /\ cleanup.pc = "idle"
  /\ storeCalls < MaxStoreCalls
  /\ storeCalls' = storeCalls + 1
  /\ LET cutoffTime == clock - keepDays * 24 * 60 * 60 * 1000 IN
       IF ~db_
       THEN /\ storeCall' = [NoCall EXCEPT !.op = "cleanupOldData", !.open = FALSE,
                                            !.result = FALSE]
            /\ UNCHANGED <<ticksRows, cleanup>>
       ELSE /\ ticksRows' = deleteOldTicks(ticksRows, cutoffTime)
            /\ cleanup' = [pc |-> "candles", cutoffTime |-> cutoffTime,
                           oldTicks |-> ticksRows' # ticksRows]
            /\ storeCall' = [NoCall EXCEPT !.op = "cleanupOldData"]
  /\ UNCHANGED <<db_, candlesRows>>

\* its second statement: DELETE FROM candles, in a transaction of its own; on a
\* closed handle sqlite3_exec fails and deletes nothing
cleanupOldData_candles ==
  /\ cleanup.pc = "candles"
  /\ candlesRows' = IF db_ THEN deleteOldCandles(candlesRows, cleanup.cutoffTime)
                    ELSE candlesRows
  /\ cleanup' = [cleanup EXCEPT !.pc = "gaps"]
  /\ storeCall' = [NoCall EXCEPT !.op = "cleanupOldData", !.open = db_]
  /\ UNCHANGED <<db_, ticksRows, storeCalls>>

\* its third statement, DELETE FROM gaps, then VACUUM and the return; no
\* statement of the program inserts into table gaps, which holds no row
cleanupOldData_gaps ==
  /\ cleanup.pc = "gaps"
  /\ cleanup' = [cleanup EXCEPT !.pc = "idle"]
  /\ storeCall' = [NoCall EXCEPT !.op = "cleanupOldData", !.open = db_, !.result = db_]
  /\ UNCHANGED <<db_, ticksRows, candlesRows, storeCalls>>

(***************************************************************************)
(* Historical pull: network/BinanceClient.cpp, the loop of                 *)
(* fetchHistoricalAggTrades and the single request of fetchKlines          *)
(***************************************************************************)
\* uint64_t arithmetic wraps; the modulus of the model is 2^22 where the code
\* has 2^64, the step chunkSize + 1 is odd under both
WordModulus == 2^22

\* the timestamps at which the exchange may hold aggTrades
SourceTimes == {100000, 600000, 1200000, 3600000}

\* what the exchange may hold: nothing, one trade, or one more than a page
SourceCounts == {0, 1, maxLimit + 1}

\* the exchanges of the model
TradeSources ==
  {src \in [SourceTimes -> SourceCounts] :
     /\ src[100000] # 1
     /\ src[1200000] # maxLimit + 1
     /\ src[3600000] # maxLimit + 1}

\* the (startTime, endTime) pairs callers pass
FetchRanges ==
  { [startTime |-> 0, endTime |-> 0],
    [startTime |-> 0, endTime |-> 1000000],
    [startTime |-> 0, endTime |-> 1500000],
    [startTime |-> 600000, endTime |-> 600000],
    [startTime |-> 3500000, endTime |-> 4000000] }

\* what httpsGet and json::parse can make of a request: a JSON array of
\* trades, an empty response, a body that does not parse
Responses == {"page", "empty", "malformed"}

RECURSIVE TimesInOrder(_)
TimesInOrder(times) ==
  IF times = {} THEN <<>>
  ELSE <<MinOf(times)>> \o TimesInOrder(times \ {MinOf(times)})

RECURSIVE TakePage(_, _)
\* the exchange answers with the first `limit` trades of the window
TakePage(times, limit) ==
  IF times = <<>> \/ limit = 0 THEN <<>>
  ELSE LET T == Head(times)
           n == IF tradeSource[T] < limit THEN tradeSource[T] ELSE limit
       IN <<[T |-> T, n |-> n]>> \o TakePage(Tail(times), limit - n)

\* GET /api/v3/aggTrades?startTime=..&endTime=..&limit=maxLimit
aggTradesPage(startTime, endTime) ==
  TakePage(TimesInOrder({T \in SourceTimes : /\ startTime <= T /\ T <= endTime
                                             /\ tradeSource[T] > 0}), maxLimit)

\* the observation counts requests up to two
UpToTwo(n) == IF n < 2 THEN n + 1 ELSE 2

NoFetchObs == [requests |-> 0, failed |-> 0, wrapped |-> FALSE, callbacks |-> 0]
NoKlineCall == [startTime |-> 0, endTime |-> 0, response |-> "none", first |-> 0, count |-> 0]

\* BinanceClient with no fetch in progress
InitFetchVars ==
  /\ fetchPc = "idle"
  /\ fetchArgs = [startTime |-> 0, endTime |-> 0]
  /\ currentStart = 0
  /\ allTicks = <<>>
  /\ tradeSource = [T \in SourceTimes |-> 0]
  /\ fetchObs = NoFetchObs
  /\ klineCall = NoKlineCall
  /\ fetches = 0

\* a slip: the window advances only past a page that brought trades
nextStart_when_page_nonempty(start, end, page) ==
  IF page = <<>> THEN start ELSE (end + 1) % WordModulus

\* `currentStart = currentEnd + 1;`
nextStart(start, end, page) == (end + 1) % WordModulus

\* entry of fetchHistoricalAggTrades with a callback
fetchHistoricalAggTrades_begin(range) ==
  /\ fetchPc # "loop"
  /\ fetches < MaxFetches
  /\ fetches' = fetches + 1
  /\ fetchPc' = "loop"
  /\ fetchArgs' = range
  /\ currentStart' = range.startTime
  /\ allTicks' = <<>>
  /\ fetchObs' = NoFetchObs
  /\ UNCHANGED <<tradeSource, klineCall>>

\* one turn of the while loop: one request and its response
fetchHistoricalAggTrades_request(response) ==
  /\ fetchPc = "loop"
  /\ currentStart < fetchArgs.endTime
  /\ LET sum == (currentStart + chunkSize) % WordModulus
         currentEnd == IF sum < fetchArgs.endTime THEN sum ELSE fetchArgs.endTime
         page == IF response = "page" THEN aggTradesPage(currentStart, currentEnd)
                 ELSE <<>>
     IN /\ allTicks' = allTicks \o page
        /\ currentStart' = nextStart(currentStart, currentEnd, page)
        /\ fetchObs' = [fetchObs EXCEPT
                          !.requests = UpToTwo(@),
                          !.failed = IF response = "page" THEN @ ELSE UpToTwo(@),
                          !.wrapped = \/ @
                                      \/ currentStart + chunkSize >= WordModulus
                                      \/ currentEnd + 1 >= WordModulus]
  /\ UNCHANGED <<fetchPc, fetchArgs, tradeSource, klineCall, fetches>>

\* the loop ends and onDataCallback(allTicks) runs
fetchHistoricalAggTrades_return ==
  /\ fetchPc = "loop"
  /\ ~(currentStart < fetchArgs.endTime)
  /\ fetchPc' = "returned"
  /\ fetchObs' = [fetchObs EXCEPT !.callbacks = @ + 1]
  /\ UNCHANGED <<fetchArgs, currentStart, allTicks, tradeSource, klineCall, fetches>>

\* the klines the exchange holds with an open time in [startTime, endTime]: one
\* per minute
KlinesHeld(startTime, endTime) ==
  IF endTime < startTime THEN 0
  ELSE endTime \div 60000 - (startTime + 59999) \div 60000 + 1

KlineRanges ==
  { [startTime |-> 0, endTime |-> 120000],
    [startTime |-> 30000, endTime |-> 59999],
    [startTime |-> 0, endTime |-> 60000 * 1000] }

\* BinanceClient::fetchKlines: one request with limit=1000, then the callback
fetchKlines(range, response) ==
  /\ fetchPc # "loop"
  /\ fetches < MaxFetches
  /\ fetches' = fetches + 1
  /\ LET held == KlinesHeld(range.startTime, range.endTime)
     IN klineCall' = [startTime |-> range.startTime, endTime |-> range.endTime,
                      response |-> response,
                      first |-> ((range.startTime + 59999) \div 60000) * 60000,
                      count |-> IF response # "page" THEN 0
                                ELSE IF held < 1000 THEN held ELSE 1000]
  /\ UNCHANGED <<fetchPc, fetchArgs, currentStart, allTicks, tradeSource, fetchObs>>

(***************************************************************************)
(* Specification of one candle receiving ticks                             *)
(***************************************************************************)
InitCandleVars ==
  /\ candle = NewCandle(60000, 120000)
  /\ applied = <<>>

InitCandle ==
  InitCandleVars /\ InitReconcilerVars /\ IdleDataManagerVars /\ InitChartVars /\ InitStoreVars
  /\ InitFetchVars

\* a caller folds one more tick of the bucket into the candle
AddTick(tick) ==
  /\ Len(applied) < MaxTicks
  /\ candle' = add_tick(candle, tick)
  /\ applied' = Append(applied, tick)

NextCandle == (\E tick \in Ticks : AddTick(tick)) /\ UNCHANGED <<rcVars, dmVars, chVars, dbVars, ftVars, clVars, plVars, syVars>>

SpecCandle == InitCandle /\ [][NextCandle]_vars

(***************************************************************************)
(* Specification of the stream reconciler: one BinanceClient, its caller   *)
(* thread and its websocket thread                                         *)
(***************************************************************************)
Init ==
  InitReconcilerVars /\ InitCandleVars /\ IdleDataManagerVars /\ InitChartVars /\ InitStoreVars
  /\ InitFetchVars

\* the reconciler's steps leave the other components alone
ReconcilerOnly == UNCHANGED <<cdVars, dmVars, chVars, dbVars, ftVars, clVars, plVars, syVars>>

Next ==
  \/ (\E enable \in BOOLEAN : enableBuffering(enable)) /\ ReconcilerOnly
  \/ (\E lastId \in 0..MaxTradeId : setLastTradeId(lastId)) /\ ReconcilerOnly
  \/ subscribeAggTrades /\ ReconcilerOnly
  \/ connectAndRun /\ ReconcilerOnly
  \/ unsubscribeFromMarketData /\ ReconcilerOnly
  \/ subscribeToMarketData /\ ReconcilerOnly
  \/ (\E candles \in KlineResults : historyFetched(candles)) /\ ReconcilerOnly
  \/ flushBegin /\ ReconcilerOnly
  \/ flushStep /\ ReconcilerOnly
  \/ flushEnd /\ ReconcilerOnly
  \/ (\E msg \in WsMessages : wsMessage(msg)) /\ ReconcilerOnly
  \/ handlerPush /\ ReconcilerOnly
  \/ handlerDispatch /\ ReconcilerOnly

Spec == Init /\ [][Next]_vars

(***************************************************************************)
(* Claims about the stream reconciler                                      *)
(***************************************************************************)
RECURSIVE CountIn(_, _)
\* how often x occurs in the sequence s
CountIn(s, x) ==
  IF s = <<>> THEN 0
  ELSE (IF Head(s) = x THEN 1 ELSE 0) + CountIn(Tail(s), x)

RECURSIVE IdsAbove(_, _, _)
\* the ids of the buffered messages that are greater than w, each id once, in
\* order of first arrival (skip: the ids already taken)
IdsAbove(buffer, w, skip) ==
  IF buffer = <<>> THEN <<>>
  ELSE IF Head(buffer).a > w /\ Head(buffer).a \notin skip
       THEN <<Head(buffer).a>> \o IdsAbove(Tail(buffer), w, skip \cup {Head(buffer).a})
       ELSE IdsAbove(Tail(buffer), w, skip)

BufferedIds == {wsMessageBuffer_[i].a : i \in 1..Len(wsMessageBuffer_)}
DeliveredIds == {delivered[i] : i \in 1..Len(delivered)}

\* C1 (as claimed): when bootstrapHistoryThenStream sends its history request,
\* buffering is already enabled and the live connection already started.
C1_BufferingAndConnectBeforeFetch ==
  fetchSnap.sent => fetchSnap.buffering /\ fetchSnap.connected

\* C2 (as claimed): a flushBuffer call that has returned, whatever the
\* watermark W and the buffer it was called on, has delivered exactly the
\* buffered ids greater than W, each id once, in arrival order.
C2_FlushDeliversEachIdAboveWatermarkOnce ==
  flushRun.returned =>
    flushRun.output = IdsAbove(flushRun.input, flushRun.watermark, {})

\* C3 (as claimed): once the bootstrap's history has completed and the buffer
\* has been flushed empty, the handler dispatches the next trade directly: it
\* never again decides to buffer one.
C3_DirectDispatchAfterFlush ==
  [][(/\ bootstraps > 0 /\ historyCalls = 1 /\ callerPc = "idle"
      /\ flushRun.ran /\ flushRun.returned
      /\ wsMessageBuffer_ = <<>> /\ hPc = "idle")
     => hPc' # "push"]_vars

\* C4 (as claimed): every trade id received since the bootstrap began is, at
\* any moment, still on its way (in the handler or in the buffer), delivered to
\* the tick callback exactly once, or dropped as covered by history; none is
\* delivered twice and none has vanished.
C4_EachTradeOnceOrCovered ==
  bootstraps > 0 =>
    \A id \in received :
      /\ CountIn(delivered, id) <= 1
      /\ \/ id \in DeliveredIds
         \/ id \in droppedCovered
         \/ id \in BufferedIds
         \/ hPc # "idle" /\ hMsg.a = id

\* C5: in every bootstrap onHistoryComplete is invoked exactly once, when the
\* history request returns, and the bootstrap's live-trade callback is never
\* invoked before it.
C5_HistoryOnceBeforeLive ==
  bootstraps > 0 =>
    /\ historyCalls <= 1
    /\ callerPc = "fetching" => historyCalls = 0 /\ tickCalls = 0
    /\ callerPc # "fetching" => historyCalls = 1
    /\ tickCalls > 0 => historyCalls = 1

\* C5 witness: in a second bootstrap, a live trade has reached the callback
\* after the history was handed over
C5_Witness ==
  /\ bootstraps = 2
  /\ historyCalls = 1
  /\ tickCalls > 0

(***************************************************************************)
(* Specification of the backfill orchestrator: one DataManager over its    *)
(* Database, the thread in detectAndFillGaps and the live stream's thread  *)
(***************************************************************************)
InitBackfill ==
  InitDataManagerVars /\ InitCandleVars /\ InitReconcilerVars /\ InitChartVars /\ InitStoreVars
  /\ InitFetchVars

\* the orchestrator's steps leave the other components alone
BackfillOnly == UNCHANGED <<cdVars, rcVars, chVars, dbVars, ftVars, clVars, plVars, syVars>>

NextBackfill ==
  \/ loadSymbolData /\ BackfillOnly
  \/ refreshData /\ BackfillOnly
  \/ fetchMissingData /\ BackfillOnly
  \/ detectAndFillGaps_reload /\ BackfillOnly
  \/ (\E trade \in ExchangeUniverse : addLiveTick(trade)) /\ BackfillOnly
  \/ clockAdvance /\ BackfillOnly

SpecBackfill == InitBackfill /\ [][NextBackfill]_vars

\* the orchestrator with a live stream that may also deliver a trade late
NextBackfillLate ==
  \/ NextBackfill
  \/ (\E trade \in ExchangeUniverse : addLiveTick_late(trade)) /\ BackfillOnly

SpecBackfillLate == InitBackfill /\ [][NextBackfillLate]_vars

(***************************************************************************)
(* Claims about the backfill orchestrator                                  *)
(***************************************************************************)
RECURSIVE SumRowQuantity(_)
\* sum of the quantities of a set of rows of table ticks
SumRowQuantity(rows) ==
  IF rows = {} THEN 0
  ELSE LET r == CHOOSE r \in rows : TRUE
       IN r.quantity + SumRowQuantity(rows \ {r})

\* the trades stored for the bucket that starts at start
StoredTicksOf(start) == {r \in ticksTable : Bucket(r.timestamp_ms) = start}

RECURSIVE SumVolume(_)
\* combined volume of a sequence of candles
SumVolume(candles) ==
  IF candles = <<>> THEN 0 ELSE Head(candles).volume + SumVolume(Tail(candles))

\* C6 (as claimed): after any interleaving of fetchMissingData and addLiveTick
\* every candle, cached or persisted, has as volume the sum of the quantities
\* of the distinct trades stored for its bucket.
C6_CandleVolumeIsStoredTrades ==
  /\ \A i \in 1..Len(candlesBySymbol_) :
       candlesBySymbol_[i].volume
         = SumRowQuantity(StoredTicksOf(candlesBySymbol_[i].start_time_ms))
  /\ \A r \in candlesTable :
       r.volume = SumRowQuantity(StoredTicksOf(r.start_time_ms))

\* C7 (as claimed): a backfill that started on an empty store, undisturbed by
\* live ticks, and fetched trades of k distinct buckets leaves getCandles
\* returning exactly k candles, in ascending start-time order, whose combined
\* volume is the sum of the fetched quantities.
C7_BackfillFromEmptyStore ==
  (backfill.done /\ backfill.fromEmpty) =>
    LET fetched == backfill.fetched
        result == backfill.result
        k == Cardinality({Bucket(fetched[i].timestamp_ms) : i \in 1..Len(fetched)})
    IN /\ Len(result) = k
       /\ \A i \in 1..(Len(result) - 1) :
            result[i].start_time_ms < result[i + 1].start_time_ms
       /\ SumVolume(result) = SumQuantity(fetched)

(***************************************************************************)
(* Specification of the chart aggregator: one ChartDataManager             *)
(***************************************************************************)
InitChart ==
  InitChartVars /\ InitCandleVars /\ InitReconcilerVars /\ IdleDataManagerVars /\ InitStoreVars
  /\ InitFetchVars

ChartOnly == UNCHANGED <<cdVars, rcVars, dmVars, dbVars, ftVars, clVars, plVars, syVars>>

NextChart ==
  \/ (\E tick \in ChartTicks : addTick(tick)) /\ ChartOnly
  \/ (\E timeframe \in Timeframes : setTimeframe(timeframe)) /\ ChartOnly
  \/ (\E ticks \in HistoricalTicks : setHistoricalData(ticks)) /\ ChartOnly
  \/ setHistoricalData_addTick /\ ChartOnly

SpecChart == InitChart /\ [][NextChart]_vars

(***************************************************************************)
(* Claims about the chart aggregator                                       *)
(***************************************************************************)
\* C11 (as claimed): once the open candle holds a trade, a trade with
\* timestamp_ms below its end_time_ms is folded into it and seals nothing; a
\* trade with timestamp_ms >= its end_time_ms appends the open candle,
\* unchanged, to the sealed history and begins a new open candle holding only
\* that trade. Sealed candles are never modified.
C11_SealOnFirstTradePastEnd ==
  [][(chartTicks # <<>> /\ Len(chartTicks') = Len(chartTicks) + 1) =>
       LET tick == chartTicks'[Len(chartTicks')]
           start == (tick.timestamp_ms \div timeframe_) * timeframe_
       IN IF tick.timestamp_ms >= currentCandle_.end_time_ms
          THEN /\ candles_' = Append(candles_, currentCandle_)
               /\ currentCandle_' = add_tick(NewCandle(start, start + timeframe_), tick)
          ELSE /\ candles_' = candles_
               /\ currentCandle_' = add_tick(currentCandle_, tick)]_vars

(***************************************************************************)
(* Claims about Candle::add_tick                                           *)
(***************************************************************************)
AppliedPrices == {applied[i].price : i \in 1..Len(applied)}
AtPrice(p) == SelectSeq(applied, LAMBDA t : t.price = p)
SellsAtPrice(p) == SelectSeq(applied, LAMBDA t : t.price = p /\ t.is_buyer_maker)
BuysAtPrice(p) == SelectSeq(applied, LAMBDA t : t.price = p /\ ~t.is_buyer_maker)

\* C8 (as claimed): after any non-empty sequence of add_tick calls, open is the
\* price of the first tick applied and close the price of the last one.
C8_OpenFirstCloseLast ==
  applied # <<>> =>
    /\ candle.open = applied[1].price
    /\ candle.close = applied[Len(applied)].price

\* C9 (as claimed): after any non-empty sequence of add_tick calls, high is the
\* maximum price, low the minimum price and volume the sum of the quantities.
C9_HighLowVolume ==
  applied # <<>> =>
    /\ candle.high = MaxOf(AppliedPrices)
    /\ candle.low = MinOf(AppliedPrices)
    /\ candle.volume = SumQuantity(applied)

RECURSIVE SumLevels(_)
\* bid_volume + ask_volume summed over the levels of a footprint
SumLevels(fp) ==
  IF fp = <<>> THEN 0
  ELSE Head(fp).second.bid_volume + Head(fp).second.ask_volume + SumLevels(Tail(fp))

\* C10: the footprint holds exactly one level per traded price; at every level
\* the sell side (bid_volume) is the sum of the sell-aggressor quantities at
\* that price, the buy side (ask_volume) the sum of the buy-aggressor
\* quantities, so bid + ask is the sum of all quantities traded at the price,
\* and the levels together add up to the candle's volume.
C10_FootprintInvariant ==
  LET fp == candle.footprint_profile IN
  /\ {fp[i].first : i \in 1..Len(fp)} = AppliedPrices
  /\ \A i, j \in 1..Len(fp) : i # j => fp[i].first # fp[j].first
  /\ \A i \in 1..Len(fp) :
       /\ fp[i].second.bid_volume = SumQuantity(SellsAtPrice(fp[i].first))
       /\ fp[i].second.ask_volume = SumQuantity(BuysAtPrice(fp[i].first))
       /\ fp[i].second.bid_volume + fp[i].second.ask_volume
            = SumQuantity(AtPrice(fp[i].first))
  /\ SumLevels(fp) = candle.volume
  /\ \A i \in 1..(Len(fp) - 1) : comp_(fp[i].first, fp[i + 1].first)

\* C10 witness: three ticks, two of them at one price on opposite sides
C10_Witness ==
  /\ Len(applied) = 3
  /\ applied[1].price = applied[3].price
  /\ applied[1].price # applied[2].price
  /\ applied[1].is_buyer_maker /\ ~applied[3].is_buyer_maker
  /\ Len(candle.footprint_profile) = 2

(***************************************************************************)
(* Specification of the store interface: callers write batches and query   *)
(* gaps, sqlite may fail inside a write                                    *)
(***************************************************************************)
InitStore ==
  InitStoreVars /\ InitCandleVars /\ InitReconcilerVars /\ IdleDataManagerVars /\ InitChartVars
  /\ InitFetchVars

StoreOnly == UNCHANGED <<cdVars, rcVars, dmVars, chVars, ftVars, plVars, syVars>>

\* a call that is not part of a cleanup
CallOnly == StoreOnly /\ UNCHANGED clVars

NextStore ==
  \/ (\E symbol \in Symbols, ticks \in TickBatches, fault \in Faults :
        Database_insertTicks(symbol, ticks, fault)) /\ CallOnly
  \/ (\E symbol \in Symbols, candles \in CandleBatches, fault \in Faults :
        Database_insertCandles(symbol, candles, fault)) /\ CallOnly
  \/ (\E symbol \in Symbols, startTime \in GapWindowStarts, maxGap \in GapThresholds :
        Database_detectGaps(symbol, startTime, GapWindowEnd, maxGap)) /\ CallOnly
  \/ Database_close /\ CallOnly
  \/ (\E clock \in CleanupClocks : cleanupOldData_ticks(clock, KEEP_DAYS)) /\ StoreOnly
  \/ cleanupOldData_candles /\ StoreOnly
  \/ cleanupOldData_gaps /\ StoreOnly

SpecStore == InitStore /\ [][NextStore]_vars

\* the call re-submits trades that are all stored: same timestamp, price and
\* quantity under the symbol
ResubmitsStoredTicks ==
  /\ storeCall.op = "insertTicks"
  /\ storeCall.ticks # <<>>
  /\ \/ storeCall.again
     \/ \A i \in 1..Len(storeCall.ticks) :
          \E r \in storeCall.before[storeCall.symbol] :
            /\ r.timestamp_ms = storeCall.ticks[i].timestamp_ms
            /\ r.price = storeCall.ticks[i].price
            /\ r.quantity = storeCall.ticks[i].quantity

\* C12: insertTicks is idempotent: a batch submitted a second time, or any
\* batch of trades that are already stored, leaves the rows of table ticks (and
\* so their count) as they were, and the call that met no sqlite fault returns
\* true
C12_InsertTicksIdempotent ==
  ResubmitsStoredTicks =>
    /\ ticksRows = storeCall.before
    /\ storeCall.fault = "none" => storeCall.result

\* a two-tick batch was stored and then inserted again
C12_Witness ==
  /\ storeCall.op = "insertTicks" /\ storeCall.again
  /\ storeCall.fault = "none" /\ db_
  /\ Len(storeCall.ticks) = 2
  /\ Cardinality(ticksRows[storeCall.symbol]) = 2

\* the call wrote its candles: the handle was open and sqlite met no fault
WroteCandles ==
  /\ storeCall.op = "insertCandles"
  /\ storeCall.open /\ storeCall.fault = "none"

\* C13: table candles holds at most one row per (symbol, start_time_ms); after
\* a write the row of each written key carries the values of the last candle
\* written for it, rows of other keys and other symbols are as before, and
\* writing the same batch again changes nothing
C13_CandleUpsertLastWriteWins ==
  /\ \A s \in Symbols : \A r1, r2 \in candlesRows[s] :
       r1.start_time_ms = r2.start_time_ms => r1 = r2
  /\ WroteCandles =>
       LET candles == storeCall.candles
           rows == candlesRows[storeCall.symbol]
           before == storeCall.before[storeCall.symbol]
           keys == {candles[i].start_time_ms : i \in 1..Len(candles)}
       IN /\ \A i \in 1..Len(candles) :
               (\A j \in (i + 1)..Len(candles) :
                  candles[j].start_time_ms # candles[i].start_time_ms)
               => RowOf(candles[i]) \in rows
          /\ {r \in rows : r.start_time_ms \notin keys}
               = {r \in before : r.start_time_ms \notin keys}
          /\ \A s \in Symbols \ {storeCall.symbol} :
               candlesRows[s] = storeCall.before[s]
          /\ storeCall.again => candlesRows = storeCall.before

\* a write replaced a stored row by a candle with other values and left a row
\* of another key in place
C13_Witness ==
  /\ WroteCandles
  /\ \E r \in storeCall.before[storeCall.symbol] :
       \E i \in 1..Len(storeCall.candles) :
         /\ storeCall.candles[i].start_time_ms = r.start_time_ms
         /\ RowOf(storeCall.candles[i]) # r
         /\ RowOf(storeCall.candles[i]) \in candlesRows[storeCall.symbol]
  /\ \E r \in candlesRows[storeCall.symbol] :
       \A i \in 1..Len(storeCall.candles) :
         storeCall.candles[i].start_time_ms # r.start_time_ms

\* the write could not store its rows: no open handle, or sqlite failed in
\* prepare, in a step or in COMMIT
WriteFailed ==
  /\ storeCall.op \in {"insertTicks", "insertCandles"}
  /\ storeCall.ticks # <<>> \/ storeCall.candles # <<>>
  /\ ~storeCall.open \/ storeCall.fault # "none"

\* C14: a write to the store that fails (no open handle, a failing statement
\* step, a failing COMMIT) returns false to its caller
C14_WriteFailureReported ==
  WriteFailed => ~storeCall.result

\* the consecutive pairs of stored timestamps of the window that lie more than
\* the threshold of the call apart
WidePairs ==
  {i \in 1..(Len(storeCall.times) - 1) :
     storeCall.times[i + 1] - storeCall.times[i] > storeCall.maxGap}

\* the gap detectGaps may emit before the first stored timestamp of the window
LeadingGap ==
  [startTime |-> storeCall.startTime, endTime |-> storeCall.times[1]]

\* the gaps of the call other than the leading one
PairGaps ==
  IF storeCall.times = <<>> THEN storeCall.gaps
  ELSE SelectSeq(storeCall.gaps, LAMBDA g : g # LeadingGap)

\* C15: detectGaps emits the gap [prev, curr] for consecutive stored timestamps
\* of the window exactly when curr - prev > minGapMs, once each; stored 1000 and
\* 71000 give exactly the gap [1000, 71000] at minGapMs 60000 and none at 80000
C15_PairGapIffDeltaExceeds ==
  storeCall.op = "detectGaps" =>
    /\ \A i \in 1..(Len(storeCall.times) - 1) :
         (i \in WidePairs) <=>
           \E k \in 1..Len(PairGaps) :
             PairGaps[k] = [startTime |-> storeCall.times[i],
                            endTime |-> storeCall.times[i + 1]]
    /\ Len(PairGaps) = Cardinality(WidePairs)
    /\ storeCall.times = <<1000, 71000>> =>
         storeCall.gaps = IF storeCall.maxGap = 60000
                          THEN <<[startTime |-> 1000, endTime |-> 71000]>>
                          ELSE <<>>

\* detectGaps ran over stored timestamps 1000 and 71000 with minGapMs 60000
C15_Witness ==
  /\ storeCall.op = "detectGaps"
  /\ storeCall.times = <<1000, 71000>>
  /\ storeCall.maxGap = 60000
  /\ storeCall.gaps = <<[startTime |-> 1000, endTime |-> 71000]>>

\* C16: over a non-empty window detectGaps emits the leading gap [start, first]
\* exactly when first - start > minGapMs, and emits it first
C16_LeadingGapIffFirstLate ==
  (storeCall.op = "detectGaps" /\ storeCall.times # <<>>) =>
    IF storeCall.times[1] - storeCall.startTime > storeCall.maxGap
    THEN /\ storeCall.gaps # <<>>
         /\ storeCall.gaps[1] = LeadingGap
         /\ \A k \in 2..Len(storeCall.gaps) : storeCall.gaps[k] # LeadingGap
    ELSE \A k \in 1..Len(storeCall.gaps) : storeCall.gaps[k] # LeadingGap

(***************************************************************************)
(* Specification of the historical pull: a caller fetches trades or klines *)
(* from an exchange that answers each request in one of the three ways; a  *)
(* running loop keeps running                                              *)
(***************************************************************************)
InitFetch ==
  /\ fetchPc = "idle"
  /\ fetchArgs = [startTime |-> 0, endTime |-> 0]
  /\ currentStart = 0
  /\ allTicks = <<>>
  /\ tradeSource \in TradeSources
  /\ fetchObs = NoFetchObs
  /\ klineCall = NoKlineCall
  /\ fetches = 0
  /\ InitCandleVars /\ InitReconcilerVars /\ IdleDataManagerVars /\ InitChartVars
  /\ InitStoreVars

FetchOnly == UNCHANGED <<cdVars, rcVars, dmVars, chVars, dbVars, clVars, plVars, syVars>>

fetchLoopStep ==
  \/ (\E response \in Responses : fetchHistoricalAggTrades_request(response)) /\ FetchOnly
  \/ fetchHistoricalAggTrades_return /\ FetchOnly

NextFetch ==
  \/ (\E range \in FetchRanges : fetchHistoricalAggTrades_begin(range)) /\ FetchOnly
  \/ (\E response \in Responses : fetchHistoricalAggTrades_request(response)) /\ FetchOnly
  \/ fetchHistoricalAggTrades_return /\ FetchOnly
  \/ (\E range \in KlineRanges, response \in Responses : fetchKlines(range, response))
       /\ FetchOnly

SpecFetch == InitFetch /\ [][NextFetch]_vars /\ WF_vars(fetchLoopStep)

RECURSIVE Delivered(_, _)
\* the number of ticks with timestamp T in a sequence of runs
Delivered(runs, T) ==
  IF runs = <<>> THEN 0
  ELSE (IF Head(runs).T = T THEN Head(runs).n ELSE 0) + Delivered(Tail(runs), T)

\* the fetch returned, every request brought its page, no arithmetic wrapped
FetchedAllPages ==
  /\ fetchPc = "returned"
  /\ fetchObs.failed = 0
  /\ ~fetchObs.wrapped

\* C18: when every request succeeds, fetchHistoricalAggTrades hands its
\* callback every trade the exchange holds with a timestamp in [startTime,
\* endTime], each once and in ascending time order, and fetchKlines returns
\* every kline with an open time in [startTime, endTime]
C18_FetchReturnsEveryRecord ==
  /\ FetchedAllPages =>
       /\ \A T \in SourceTimes :
            (fetchArgs.startTime <= T /\ T <= fetchArgs.endTime)
            => Delivered(allTicks, T) = tradeSource[T]
       /\ \A i \in 1..(Len(allTicks) - 1) : allTicks[i].T < allTicks[i + 1].T
  /\ klineCall.response = "page" =>
       klineCall.count = KlinesHeld(klineCall.startTime, klineCall.endTime)

\* a step that enters detectAndFillGaps
EntersDetectAndFillGaps == dgPc = "idle" /\ dgPc' = "fetching"

C20_FetchUpToEarliestStored ==
  [][(/\ EntersDetectAndFillGaps
      /\ ticksTable # {}
      /\ MinOf({r.timestamp_ms : r \in ticksTable}) > now - HistoryWindowMs) =>
       dgPlan' = <<[startTime |-> now - HistoryWindowMs,
                    endTime |-> MinOf({r.timestamp_ms : r \in ticksTable})]>>]_vars

\* the earliest and the latest stored trade time, and the window start
EarliestStored == MinOf({r.timestamp_ms : r \in ticksTable})
LatestStored == MaxOf({r.timestamp_ms : r \in ticksTable})
WindowStart == now - HistoryWindowMs

\* the gaps the detector returns over [windowStart, latestStored] that are not
\* shorter than 60000 ms
GapsToFill ==
  SelectSeq(detectGaps(ticksTable, WindowStart, LatestStored, 60000),
            LAMBDA gap : gap.endTime - gap.startTime >= 60000)

C22_TailFetchWhenStale ==
  [][(EntersDetectAndFillGaps /\ ticksTable # {}) =>
       IF LatestStored < now - 300000
       THEN /\ dgPlan' # <<>>
            /\ dgPlan'[Len(dgPlan')] = [startTime |-> LatestStored, endTime |-> now]
       ELSE \A k \in 1..Len(dgPlan') :
              dgPlan'[k] # [startTime |-> LatestStored, endTime |-> now]]_vars

\* the number of onDataUpdate_ calls made in a step
UpdatesInStep == (backfill'.updates - backfill.updates + 3) % 3

\* the tick is in table ticks and its minute has a row in table candles
Persisted(tick, ticks, candles) ==
  /\ \E r \in ticks : /\ r.timestamp_ms = tick.timestamp_ms
                      /\ r.price = tick.price
                      /\ r.quantity = tick.quantity
  /\ \E r \in candles : r.start_time_ms = Bucket(tick.timestamp_ms)

gapThreadAdvances ==
  /\ dgPc = "fetching"
  /\ \/ dgPlan # <<>> /\ dgPlan' = Tail(dgPlan)
     \/ dgPlan = <<>> /\ dgPc' = "idle"

SpecBackfillLive ==
  /\ SpecBackfill
  /\ []<>(dgPc # "fetching") \/ []<><<gapThreadAdvances>>_vars

\* a step in which fetchMissingData returned with no trade
FetchBroughtNothing ==
  /\ dgPc = "fetching"
  /\ dgPlan # <<>>
  /\ dgPlan' # dgPlan
  /\ backfill'.fetched = backfill.fetched

InitPipeline ==
  InitStoreVars /\ InitCandleVars /\ InitReconcilerVars /\ IdleDataManagerVars
  /\ InitChartVars /\ InitFetchVars

PipelineOnly == UNCHANGED <<cdVars, rcVars, dmVars, chVars, dbVars, ftVars, clVars, syVars>>

NextPipeline ==
  \/ callbackOfMain /\ PipelineOnly
  \/ callbackOfHandleSubscribe /\ PipelineOnly
  \/ handleSubscribe /\ PipelineOnly
  \/ (\E t \in Threads : pop(t)) /\ PipelineOnly
  \/ (\E t \in Threads : popWake(t)) /\ PipelineOnly
  \/ (\E t \in Threads : spuriousWakeup(t)) /\ PipelineOnly
  \/ invalidate /\ PipelineOnly
  \/ (\E t \in Threads, op \in CallableOps : callManager(t, op)) /\ PipelineOnly
  \/ (\E t \in Threads : lockGuard(t)) /\ PipelineOnly
  \/ (\E t \in Threads : leaveGuard(t)) /\ PipelineOnly
  \/ (\E t \in Threads : persistTick(t)) /\ PipelineOnly
  \/ (\E t \in Threads : dataUpdateCallback(t)) /\ PipelineOnly
  \/ joinWorkers /\ PipelineOnly
  \/ cleanupThread /\ UNCHANGED <<cdVars, rcVars, dmVars, chVars, ftVars, syVars>>

SpecPipeline ==
  /\ InitPipeline
  /\ [][NextPipeline]_vars
  /\ \A t \in Threads : SF_vars(threadRuns(t) /\ PipelineOnly)
  /\ WF_vars(cleanupThread /\ UNCHANGED <<cdVars, rcVars, dmVars, chVars, ftVars, syVars>>)

\* C25: no Database write is made on the stream-delivery thread, whichever
\* live-trade callback is registered
C25_NoStoreWriteOnDeliveryThread ==
  \A w \in storeWrites : w.thread # "network"

\* C26: once tickQueue is invalidated, a thread in pop() returns no value
\* whether it was blocked or calls afterwards, no waiter is left without its
\* notification, and the processing worker leaves its loop
C26_InvalidateUnblocksPop ==
  /\ [][\A t \in Threads :
          (/\ ~tickQueue.valid_
           /\ threads[t].at \in {"pop", "waiting"}
           /\ threads'[t] # threads[t]) => threads'[t].at = "exited"]_vars
  /\ [](~tickQueue.valid_ => Waiters \subseteq tickQueue.notified)
  /\ (~tickQueue.valid_) ~> (threads["processing"].at = "exited")

\* the worker was blocked in pop() on an empty queue when invalidate() ran and
\* has been notified
C26_Witness ==
  /\ ~tickQueue.valid_
  /\ tickQueue.queue_ = <<>>
  /\ threads["processing"].at = "waiting"
  /\ "processing" \in tickQueue.notified
  /\ threads["main"].at = "joining"

\* the mutex the shared-resource policy assigns to a map
GuardOf(map) == IF map = "candlesBySymbol_" THEN "dataMutex_" ELSE "symbolMutex_"

\* the threads inside a mutation of the map
Mutators(map) ==
  {t \in Threads : threads[t].at = "mutate" /\ mapOf(threads[t].op) = map}

\* C28: a thread inside a mutation of candlesBySymbol_ holds dataMutex_, a
\* thread inside a mutation of the symbol map or its indices holds
\* symbolMutex_, and no two threads are inside a mutation of the same map
C28_MapsMutatedUnderTheirMutex ==
  \A map \in {"candlesBySymbol_", "symbols_"} :
    /\ \A t \in Mutators(map) : mutexes[GuardOf(map)] = t
    /\ Cardinality(Mutators(map)) <= 1

\* the delivery thread is inside addLiveTick's mutation while the worker waits
\* for dataMutex_ with its own trade, and the message thread mutates the symbol
\* map
C28_Witness ==
  /\ threads["network"].at = "mutate"
  /\ threads["processing"].at = "lock"
  /\ threads["api"].at = "mutate"
  /\ threads["api"].op = "fetchExchangeInfoFromApi"
  /\ threads["main"].at = "lock"
  /\ threads["main"].op = "loadFromDatabase"

\* C27: while cleanupOldData is running no caller of the Database finds tables
\* from which the old ticks are deleted and which still hold a candle older
\* than the cutoff
C27_CleanupIsOneTransaction ==
  (cleanup.pc = "candles" /\ cleanup.oldTicks) =>
    \A s \in Symbols : \A r \in candlesRows[s] : ~(r.start_time_ms < cleanup.cutoffTime)

\* every trade in delivered went to the subscription in force: delivered is
\* emptied when a bootstrap begins, and the bootstrap subscribes anew when its
\* history arrives
InCurrentSubscription ==
  onTick # BootstrapCallback(bootstraps) \/ Len(delivered) = tickCalls

\* a step of the message handler's direct branch that calls onTick
DirectDelivery ==
  /\ hPc = "dispatch"
  /\ hPc' = "idle"
  /\ delivered' # delivered

\* C29: the direct branch delivers a trade only if its id is above the
\* watermark and was not delivered before in this subscription, by a flush or
\* directly, and records the id as seen
C29_DirectDispatchDeliversUnseenAboveWatermark ==
  [][(DirectDelivery /\ InCurrentSubscription) =>
       /\ hMsg.a > lastRestTradeId_
       /\ hMsg.a \notin DeliveredIds
       /\ hMsg.a \in seenTradeIds_']_vars

\* C30: once a bootstrap has recorded the close time of its last kline as the
\* watermark, a trade is dropped as covered only if it is not newer than the
\* watermark
C30_NewerTradeNeverDroppedAsCovered ==
  [][\A id \in TradeIds :
       (/\ bootstraps > 0
        /\ historyCalls = 1
        /\ lastRestTradeId_ \in KlineEndTimes
        /\ id \notin droppedCovered
        /\ id \in droppedCovered') => aggTradeTime(id) <= lastRestTradeId_]_vars

\* C31: after every addTick the open candle spans one bucket of the timeframe,
\* a candle the tick begins starts at the bucket of that tick, a candle that
\* already holds trades keeps its start, and the sealed candles span one bucket
C31_CandleBucketOfFirstTrade ==
  [][Len(chartTicks') = Len(chartTicks) + 1 =>
       LET tick == chartTicks'[Len(chartTicks')]
           start == (tick.timestamp_ms \div timeframe_) * timeframe_
       IN /\ currentCandle_'.end_time_ms = currentCandle_'.start_time_ms + timeframe_
          /\ IF currentCandle_.volume = 0 \/ candles_' # candles_
             THEN currentCandle_'.start_time_ms = start
             ELSE currentCandle_'.start_time_ms = currentCandle_.start_time_ms
          /\ \A i \in 1..Len(candles_') :
               candles_'[i].end_time_ms = candles_'[i].start_time_ms + timeframe_]_vars

(***************************************************************************)
(* Out-of-order trades                                                     *)
(***************************************************************************)

\* an addTick step of ChartDataManager whose tick lies in a bucket before the
\* open candle folds the tick into the open candle and seals nothing
ChartFoldsEarlierTick ==
  [][(Len(chartTicks') = Len(chartTicks) + 1 /\ currentCandle_.volume > 0
      /\ chartTicks'[Len(chartTicks')].timestamp_ms < currentCandle_.start_time_ms) =>
        /\ candles_' = candles_
        /\ currentCandle_' = add_tick(currentCandle_, chartTicks'[Len(chartTicks')])]_vars

\* the tick of the step lies in a bucket before the last candle of the cache
EarlierThanOpenCandle(trade) ==
  /\ addLiveTick(trade) \/ addLiveTick_late(trade)
  /\ candlesBySymbol_ # <<>>
  /\ Bucket(trade.T) < candlesBySymbol_[Len(candlesBySymbol_)].start_time_ms

\* C32: a live trade of a bucket before the open candle is folded into the open
\* candle: the cache gets no new candle, its earlier candles stay as they were,
\* and no stored candle of another bucket is written
C32_EarlierTradeFoldedIntoOpenCandle ==
  [][\A trade \in ExchangeUniverse :
       EarlierThanOpenCandle(trade) =>
         LET n == Len(candlesBySymbol_)
         IN /\ candlesBySymbol_' =
                 [candlesBySymbol_ EXCEPT ![n] = add_tick(@, TickOf(trade))]
            /\ \A r \in candlesTable :
                 r.start_time_ms # candlesBySymbol_[n].start_time_ms =>
                   r \in candlesTable']_vars

(***************************************************************************)
(* Order of the live trades                                                *)
(***************************************************************************)

\* the trades are numbered in the order the transport delivered them; the
\* trades that wait for addLiveTick: in the queue, or popped or delivered and
\* not yet inside the mutation
NotYetApplied ==
  {tickQueue.queue_[i] : i \in 1..Len(tickQueue.queue_)}
    \cup {threads[t].tick : t \in {u \in Threads : threads[u].at = "lock"
                                                   /\ threads[u].op = "addLiveTick"}}

\* ThreadSafeQueue hands out the pushed trades in push order, each once: the
\* queue holds later trades than the one popped last, in ascending order, and a
\* pop returns the trade pushed after the one popped before
QueueIsFifo ==
  /\ [](\A i \in 1..Len(tickQueue.queue_) :
          /\ tickQueue.queue_[i] > threads["processing"].tick
          /\ \A j \in 1..Len(tickQueue.queue_) :
               i < j => tickQueue.queue_[i] < tickQueue.queue_[j])
  /\ [][threads'["processing"].tick # threads["processing"].tick =>
          /\ tickQueue.queue_ # <<>>
          /\ threads'["processing"].tick = Head(tickQueue.queue_)
          /\ threads'["processing"].tick = threads["processing"].tick + 1
          /\ tickQueue'.queue_ = Tail(tickQueue.queue_)]_vars

\* C33: the queue is first in first out without duplication, and no trade is
\* inside addLiveTick while a trade the transport delivered before it still
\* waits for its addLiveTick
C33_TradesAppliedInReceiptOrder ==
  /\ QueueIsFifo
  /\ [](\A t \in Threads :
          (threads[t].op = "addLiveTick" /\ threads[t].at \in {"mutate", "persist"}) =>
            \A earlier \in NotYetApplied : earlier > threads[t].tick)

(***************************************************************************)
(* Database::detectGaps over stored timestamps on both sides of the window *)
(***************************************************************************)

GapTimes == {1000, 61000, 71000, 141500}
GapStarts == {0, 500, 2000}
GapMinGaps == {5000, maxGapMs}

RECURSIVE StoreTicksOf(_)
\* the trades at the given times, in time order
StoreTicksOf(times) ==
  IF times = {} THEN <<>>
  ELSE <<StoreTick(MinOf(times))>> \o StoreTicksOf(times \ {MinOf(times)})

\* the store after one insertTicks per symbol
InitGaps ==
  /\ db_ = TRUE
  /\ ticksRows \in [Symbols -> {insertTicks({}, StoreTicksOf(times)) :
                                  times \in SUBSET GapTimes}]
  /\ candlesRows = [s \in Symbols |-> {}]
  /\ storeCall = NoCall
  /\ storeCalls = 0
  /\ cleanup = NoCleanup
  /\ InitPipelineVars
  /\ currentSymbol_ = DefaultSymbol
  /\ InitCandleVars /\ InitReconcilerVars /\ IdleDataManagerVars /\ InitChartVars
  /\ InitFetchVars

NextGaps ==
  (\E symbol \in Symbols, startTime \in GapStarts, maxGap \in GapMinGaps :
     Database_detectGaps(symbol, startTime, GapWindowEnd, maxGap)) /\ CallOnly

SpecGaps == InitGaps /\ [][NextGaps]_vars

\* C34: the gaps detectGaps returns are in ascending order, each is wider than
\* minGapMs, each lies inside the window, consecutive gaps overlap in at most
\* an endpoint, and no stored timestamp of the symbol lies strictly inside one
C34_GapsOrderedDisjointAndEmpty ==
  storeCall.op = "detectGaps" =>
    LET gaps == storeCall.gaps IN
      /\ \A k \in 1..Len(gaps) :
           /\ gaps[k].startTime < gaps[k].endTime
           /\ gaps[k].endTime - gaps[k].startTime > storeCall.maxGap
           /\ storeCall.startTime <= gaps[k].startTime
           /\ gaps[k].endTime <= GapWindowEnd
           /\ \A r \in ticksRows[storeCall.symbol] :
                ~(gaps[k].startTime < r.timestamp_ms /\ r.timestamp_ms < gaps[k].endTime)
      /\ \A k \in 1..(Len(gaps) - 1) :
           /\ gaps[k].startTime < gaps[k + 1].startTime
           /\ gaps[k].endTime <= gaps[k + 1].startTime

\* a window that begins after the first stored trade and ends before the last:
\* the leading gap and the gap that follows it share the endpoint 61000
C34_Witness ==
  /\ storeCall.op = "detectGaps"
  /\ storeCall.startTime = 2000
  /\ {r.timestamp_ms : r \in ticksRows[storeCall.symbol]} = GapTimes
  /\ storeCall.gaps = <<[startTime |-> 2000, endTime |-> 61000],
                        [startTime |-> 61000, endTime |-> 71000]>>

\* C35: the cached candle list is strictly ascending by start_time_ms, so it
\* holds one candle per start, and holds at most maxCandlesInMemory candles
\* after an addLiveTick
C35_CacheSortedOnePerStart ==
  /\ [](\A i \in 1..(Len(candlesBySymbol_) - 1) :
          candlesBySymbol_[i].start_time_ms < candlesBySymbol_[i + 1].start_time_ms)
  /\ [][\A trade \in ExchangeUniverse :
          (addLiveTick(trade) \/ addLiveTick_late(trade)) =>
            Len(candlesBySymbol_') <= maxCandlesInMemory]_vars

(***************************************************************************)
(* ChartDataManager::setHistoricalData                                     *)
(***************************************************************************)

\* C36: a setHistoricalData call never waits for the mutex it holds itself and
\* never leaves by an exception, and when it returns every tick of its list
\* has been passed to addTick in order after the reset and mutex_ is free
C36_SetHistoricalDataReturns ==
  /\ [](setHistoricalCall.at \in {"idle", "loop"})
  /\ [][(setHistoricalCall.at = "loop" /\ setHistoricalCall'.at = "idle") =>
          /\ chartTicks' = setHistoricalCall.ticks
          /\ ~setHistoricalCall'.mutex_]_vars

(***************************************************************************)
(* Shutdown of main                                                        *)
(***************************************************************************)

\* C37: once main has invalidated the queue and waits for its workers, every
\* join returns and main reaches its exit
C37_ShutdownTerminates ==
  (threads["main"].at = "joining") ~> (threads["main"].at = "exited")

(***************************************************************************)
(* A new subscription                                                      *)
(***************************************************************************)

\* C38: a subscribeAggTrades call leaves no watermark and no buffering flag in
\* force: after it lastRestTradeId_ is 0 and bufferingEnabled_ is false
C38_SubscribeStartsFresh ==
  [][subscribeAggTrades =>
       /\ lastRestTradeId_' = 0
       /\ ~bufferingEnabled_'
       /\ wsMessageBuffer_' = <<>>
       /\ seenTradeIds_' = {}]_vars

\* a subscribeAggTrades call empties the buffer and the seen-id set
SubscribeClearsBufferAndSeen ==
  [][subscribeAggTrades => (wsMessageBuffer_' = <<>> /\ seenTradeIds_' = {})]_vars

(***************************************************************************)
(* The symbol of a live trade: ApiHandler, DataManager, BinanceClient      *)
(***************************************************************************)

\* the trades a subscription delivers: of the last two minutes
LiveTicks == {StoreTick(604829000), StoreTick(604889000)}

\* candlesBySymbol_[symbol] of the std::map: an empty list for a new key
cachedCandles(symbol) ==
  IF symbol \in DOMAIN candlesBySymbol_ THEN candlesBySymbol_[symbol] ELSE <<>>

\* `candlesBySymbol_[symbol] = candles`
cachePut(symbol, candles) ==
  [s \in DOMAIN candlesBySymbol_ \cup {symbol} |->
     IF s = symbol THEN candles ELSE candlesBySymbol_[s]]

\* what a step of this part leaves alone
SymbolsOnly ==
  UNCHANGED <<cdVars, chVars, ftVars, clVars, plVars, rcPcs, rcObs,
              bufferingEnabled_, wsMessageBuffer_, seenTradeIds_, lastRestTradeId_,
              onTick, onMessage, wsRunning, isSubscribed,
              now, exchange, ticksTable, candlesTable, isLoadingHistory_, dgPc,
              dgPlan, liveNext, backfill, db_>>

\* ApiHandler::handleSubscribe: subscribeAggTrades(symbol, callback); the
\* DataManager is not told the symbol
handleSubscribe_symbol(symbol) ==
  /\ activeSymbol' = symbol
  /\ UNCHANGED <<currentSymbol_, candlesBySymbol_, ticksRows, candlesRows,
                 storeCall, storeCalls>>

\* DataManager::initialize(settings), which ApiHandler::handleSetConfig calls
\* with its settings_
handleSetConfig ==
  /\ currentSymbol_' = DefaultSymbol
  /\ UNCHANGED <<activeSymbol, candlesBySymbol_, ticksRows, candlesRows,
                 storeCall, storeCalls>>

\* DataManager::loadSymbolData(symbol) with an exchange that holds no trade:
\* currentSymbol_ = symbol, loadFromDatabase, and a gap fill that fetches
\* nothing
loadSymbolData_symbol(symbol) ==
  /\ currentSymbol_' = symbol
  /\ candlesBySymbol_' =
       cachePut(symbol, getCandles(candlesRows[symbol], now - HistoryWindowMs, now))
  /\ UNCHANGED <<activeSymbol, ticksRows, candlesRows, storeCall, storeCalls>>

\* DataManager::addLiveTick(tick), called by the callback of the subscription
\* for activeSymbol: addLiveTick(currentSymbol_, tick)
addLiveTick_tick(tick) ==
  /\ activeSymbol # ""
  /\ storeCalls < MaxStoreCalls
  /\ storeCalls' = storeCalls + 1
  /\ LET symbol == currentSymbol_
         start == (tick.timestamp_ms \div 60000) * 60000
         single == [add_tick(NewCandle(0, 0), tick) EXCEPT
                      !.start_time_ms = start, !.end_time_ms = start + 60000]
         candles == cachedCandles(symbol)
         n == Len(candles)
         updated == IF candles # <<>> /\ candles[n].start_time_ms = start
                    THEN [candles EXCEPT ![n] = add_tick(candles[n], tick)]
                    ELSE Append(candles, single)
         m == Len(updated)
     IN /\ candlesRows' = [candlesRows EXCEPT
                             ![symbol] = insertCandles(@, <<updated[m]>>)]
        /\ candlesBySymbol_' =
             cachePut(symbol, IF m > maxCandlesInMemory
                              THEN SubSeq(updated, m - maxCandlesInMemory + 1, m)
                              ELSE updated)
        /\ ticksRows' = [ticksRows EXCEPT ![symbol] = insertTicks(@, <<tick>>)]
        /\ storeCall' = [NoCall EXCEPT !.op = "addLiveTick", !.symbol = symbol,
                                       !.ticks = <<tick>>]
  /\ UNCHANGED <<activeSymbol, currentSymbol_>>

NextSymbols ==
  \/ (\E symbol \in Symbols : handleSubscribe_symbol(symbol)) /\ SymbolsOnly
  \/ handleSetConfig /\ SymbolsOnly
  \/ (\E symbol \in Symbols : loadSymbolData_symbol(symbol)) /\ SymbolsOnly
  \/ (\E tick \in LiveTicks : addLiveTick_tick(tick)) /\ SymbolsOnly

SpecSymbols == InitStore /\ [][NextSymbols]_vars

\* C39: a tick the subscription for a symbol delivers is written to the trades
\* and candles of that symbol, and the rows of every other symbol stay as they
\* were
C39_LiveTickStoredUnderItsSymbol ==
  [][\A tick \in LiveTicks :
       addLiveTick_tick(tick) =>
         /\ \E r \in ticksRows'[activeSymbol] : r.timestamp_ms = tick.timestamp_ms
         /\ \E r \in candlesRows'[activeSymbol] :
              r.start_time_ms = Bucket(tick.timestamp_ms)
         /\ \A s \in Symbols \ {activeSymbol} :
              ticksRows'[s] = ticksRows[s] /\ candlesRows'[s] = candlesRows[s]]_vars

(***************************************************************************)
(* Readers of the candle cache                                             *)
(***************************************************************************)

\* the threads that read candlesBySymbol_ through getCandles and the reference
\* it returns
Readers == {t \in Threads : threads[t].at = "notify"}

\* C40: no thread reads the cached candle lists while another thread is inside
\* a mutation of them
C40_NoReadDuringMutation ==
  \A t \in Readers : Mutators("candlesBySymbol_") \ {t} = {}

====
